---- MODULE Spec2Model ----
(***************************************************************************)
(* Message reconciliation (browser client) and streaming response          *)
(* generation (server) of the Sayna voice-chat examples.                   *)
(*                                                                         *)
(* Texts are sequences of characters (one-character strings), so that the  *)
(* prefix tests, trimming and sentence cutting of the code are computed    *)
(* and not assumed.  Identities, topics, roles and statuses are strings.   *)
(* The timestamp and delivery fields of a chat entry are written by the    *)
(* handlers and never read by them; they are not part of the state.        *)
(***************************************************************************)
EXTENDS Integers, Sequences, FiniteSets, TLC

VARIABLES
    messages,            \* App: const [messages, setMessages] = useState([])
    isAssistantLoading,  \* App: useState(false)
    connectionStatus,    \* App: "idle" | "connecting" | "connected" | "error"
    error,               \* App: error banner, Undefined for null
    micStatus,           \* App: "off" | "starting" | "on" | "error"
    playbackBlocked,     \* App: useState(false)
    clientRef,           \* clientRef.current: "null" or "client"
    roomUp,              \* the referenced client's currentRoom is present
    actionInFlight,      \* actionInFlightRef.current
    connPc,              \* await at which connect()/handleDisconnect() is suspended
    withAudio,           \* argument of the suspended connect()
    pending,             \* ids of the publishData promises not yet settled
    mon,                 \* observer of the inbound traffic (not program state)
    history,             \* AiService.history: room name -> stored messages
    call,                \* arguments of the with-retry call under way
    pc,                  \* await at which the with-retry call is suspended
    attempt,             \* loop variable of the with-retry call
    fullResponse,        \* generateStreamingResponse: fullResponse
    sentenceBuffer,      \* generateStreamingResponse: sentenceBuffer
    obs,                 \* observer of the call (not program state)
    agent                \* VoiceAgent: isRunning, and what it did after stop()

chatVars == <<messages, isAssistantLoading>>
connVars == <<connectionStatus, micStatus, playbackBlocked, clientRef, roomUp,
              actionInFlight, connPc, withAudio>>
clientVars == <<chatVars, connVars, error, pending>>
genVars == <<call, pc, attempt, fullResponse, sentenceBuffer, obs>>
serverVars == <<history, genVars, agent>>
vars == <<clientVars, mon, serverVars>>

-----------------------------------------------------------------------------
(* JavaScript values *)

Undefined == "<undefined>"
JsTrue == "true"
JsFalse == "false"

\* a ?? b
Coalesce(a, b) == IF a # Undefined THEN a ELSE b

\* truthiness of an optional string
Truthy(s) == s # Undefined /\ s # ""

\* s.startsWith(p), on texts
StartsWith(s, p) == Len(p) <= Len(s) /\ SubSeq(s, 1, Len(p)) = p

-----------------------------------------------------------------------------
(* Bounds and input alphabets *)

\* longest transcript explored by SpecInbound and SpecMerge
MaxInbound == 2

\* longest transcript explored by SpecChat
MaxChat == 2

\* message texts: a text and a longer text that starts with it
Texts == {<<"a">>, <<"a", "b">>}

\* message texts: a chain of growing prefixes, and an unrelated text
ChainTexts == {<<"a">>, <<"a", "b">>, <<"a", "b", "c">>, <<"b">>}

\* flag keys of a payload
Flags(is_final, isFinal, final, interim, partial) ==
    [is_final |-> is_final, isFinal |-> isFinal, final |-> final,
     interim |-> interim, partial |-> partial]

NoFlags == Flags(Undefined, Undefined, Undefined, Undefined, Undefined)

\* no flag; interim by either key; final by either key
FlagChoices ==
    {NoFlags,
     Flags(Undefined, Undefined, Undefined, JsTrue, Undefined),
     Flags(JsFalse, Undefined, Undefined, Undefined, Undefined),
     Flags(JsTrue, Undefined, Undefined, Undefined, Undefined),
     Flags(Undefined, Undefined, Undefined, JsFalse, Undefined)}

\* the same, and a payload marked final and partial at once
MergeFlagChoices ==
    FlagChoices \cup {Flags(Undefined, JsTrue, Undefined, Undefined, JsTrue)}

\* a JSON object payload with a string message
ObjectPayload(message, role, topic, identity, flags) ==
    [kind |-> "object", message |-> message, role |-> role, topic |-> topic,
     identity |-> identity, is_final |-> flags.is_final,
     isFinal |-> flags.isFinal, final |-> flags.final,
     interim |-> flags.interim, partial |-> flags.partial]

\* a payload without a string message, and a payload that is not JSON
OtherPayload(kind, message) ==
    [kind |-> kind, message |-> message, role |-> Undefined,
     topic |-> Undefined, identity |-> Undefined, is_final |-> Undefined,
     isFinal |-> Undefined, final |-> Undefined, interim |-> Undefined,
     partial |-> Undefined]

Event(payload, participant, topic) ==
    [payload |-> payload, participant |-> participant, topic |-> topic]

\* (participant identity, payload identity): the sender falls back to the
\* role, or is the participant
SenderChoices == {<<Undefined, Undefined>>, <<"alice", Undefined>>}

\* chat messages of every text, role, sender and flag choice
ChatEvents ==
    {Event(ObjectPayload(m, r, Undefined, sc[2], f), sc[1], Undefined) :
        m \in Texts, r \in {"user", "ai"}, sc \in SenderChoices,
        f \in FlagChoices}

\* status and foreign topics (from the payload or from the event), payloads
\* that are dropped, and raw text
RoutingEvents ==
    {Event(ObjectPayload(<<"a">>, "ai", "status", Undefined, NoFlags),
           Undefined, Undefined),
     Event(ObjectPayload(<<"a">>, "ai", "other", Undefined, NoFlags),
           Undefined, Undefined),
     Event(ObjectPayload(<<"a">>, "ai", "status", Undefined, NoFlags),
           Undefined, "chat"),
     Event(OtherPayload("nomessage", <<>>), Undefined, Undefined),
     Event(OtherPayload("text", <<"a">>), "alice", Undefined)}

\* one participant streaming growing texts under either role
MergeEvents ==
    {Event(ObjectPayload(m, r, Undefined, Undefined, f), "alice", Undefined) :
        m \in ChainTexts, r \in {"user", "ai"}, f \in MergeFlagChoices}

InboundEvents == ChatEvents \cup RoutingEvents

-----------------------------------------------------------------------------
(* Browser client: chat entries *)

\* generateId(): an identifier carried by no entry and by no publish in
\* flight (the least such number stands for a newly drawn identifier).
GenerateId ==
    LET used == {messages[i].id : i \in 1..Len(messages)} \cup pending
    IN  CHOOSE n \in 0..Cardinality(used) :
            n \notin used /\ \A m \in 0..(n - 1) : m \in used

\* The entry addMessage builds: no topic, no status.
SystemEntry(role, text, senderId) ==
    [id |-> GenerateId, role |-> role, text |-> text, senderId |-> senderId,
     topic |-> Undefined, status |-> Undefined]

\* variant of AddMessage that writes the new entry over the last one
AddMessageOverLast(prev, role, text, senderId) ==
    IF Len(prev) = 0 THEN <<SystemEntry(role, text, senderId)>>
    ELSE [prev EXCEPT ![Len(prev)] = SystemEntry(role, text, senderId)]

\* addMessage(role, text, senderId): setMessages(prev => [...prev, message])
AddMessage(prev, role, text, senderId) ==
    Append(prev, SystemEntry(role, text, senderId))

-----------------------------------------------------------------------------
(* Browser client: decoding of an inbound payload *)

\* A payload is the decoded bytes seen as one of:
\*   kind "object":    a JSON object whose message is a string
\*   kind "nomessage": JSON whose message is missing or not a string
\*   kind "text":      bytes that are not JSON
\* A flag key holds JsTrue, JsFalse, or Undefined (missing or not a boolean).
NullData == [ok |-> FALSE]

\* isFinal: is_final, else isFinal, else final
ResolveIsFinal(p) ==
    IF p.is_final # Undefined THEN p.is_final
    ELSE IF p.isFinal # Undefined THEN p.isFinal
    ELSE IF p.final # Undefined THEN p.final
    ELSE Undefined

\* interim: interim, else partial
ResolveInterim(p) ==
    IF p.interim # Undefined THEN p.interim
    ELSE IF p.partial # Undefined THEN p.partial
    ELSE Undefined

ParseDataChannelMessage(p) ==
    IF p.kind = "text"
    THEN [ok |-> TRUE, message |-> p.message, topic |-> "chat", role |-> "ai",
          identity |-> Undefined, isFinal |-> Undefined, interim |-> Undefined]
    ELSE IF p.kind = "nomessage"
    THEN NullData
    ELSE [ok |-> TRUE,
          message |-> p.message,
          topic |-> IF p.topic # Undefined THEN p.topic ELSE "chat",
          role |-> IF p.role = "user" THEN "user" ELSE "ai",
          identity |-> p.identity,
          isFinal |-> ResolveIsFinal(p),
          interim |-> ResolveInterim(p)]

-----------------------------------------------------------------------------
(* Browser client: the transcript reconciler *)

HasExplicitInterim(data) == data.interim = JsTrue \/ data.isFinal = JsFalse

HasExplicitFinal(data) == data.interim = JsFalse \/ data.isFinal = JsTrue

HasExplicitFlag(data) == HasExplicitInterim(data) \/ HasExplicitFinal(data)

\* role shown for a wire role
EntryRole(data) == IF data.role = "user" THEN "user" ELSE "assistant"

\* participant?.identity ?? data.identity ?? data.role
SenderId(data, participant) ==
    Coalesce(participant, Coalesce(data.identity, data.role))

\* topic ?? data.topic
MessageTopic(data, topic) == Coalesce(topic, data.topic)

IncomingMessage(data, participant, topic) ==
    [id |-> GenerateId,
     role |-> EntryRole(data),
     text |-> data.message,
     senderId |-> SenderId(data, participant),
     topic |-> MessageTopic(data, topic),
     status |-> IF HasExplicitInterim(data) THEN "streaming" ELSE "sent"]

\* variant of SameSender that ignores the sender ids and compares roles only
SameSenderByRole(lastMessage, incoming) == lastMessage.role = incoming.role

SameSender(lastMessage, incoming) ==
    IF Truthy(incoming.senderId) /\ Truthy(lastMessage.senderId)
    THEN incoming.senderId = lastMessage.senderId
    ELSE lastMessage.role = incoming.role

SameTopic(lastMessage, incoming) == lastMessage.topic = incoming.topic

IsTextContinuation(lastMessage, data) ==
    /\ lastMessage.text # <<>>
    /\ \/ StartsWith(data.message, lastMessage.text)
       \/ StartsWith(lastMessage.text, data.message)

\* variant of ShouldTreatAsInterim whose heuristic ignores a final flag
TreatAsInterimDespiteFinal(lastMessage, incoming, data) ==
    \/ HasExplicitInterim(data)
    \/ /\ incoming.role = "user"
       /\ SameSender(lastMessage, incoming)
       /\ SameTopic(lastMessage, incoming)
       /\ IsTextContinuation(lastMessage, data)

ShouldTreatAsInterim(lastMessage, incoming, data) ==
    \/ HasExplicitInterim(data)
    \/ /\ ~HasExplicitFlag(data)
       /\ incoming.role = "user"
       /\ SameSender(lastMessage, incoming)
       /\ SameTopic(lastMessage, incoming)
       /\ IsTextContinuation(lastMessage, data)

\* variant of ShouldFinalizeStreaming that ignores an explicit final flag
FinalizeOnEqualTextOnly(lastMessage, data) ==
    /\ ~HasExplicitFlag(data)
    /\ lastMessage.status = "streaming"
    /\ data.message = lastMessage.text

ShouldFinalizeStreaming(lastMessage, data) ==
    \/ HasExplicitFinal(data)
    \/ /\ ~HasExplicitFlag(data)
       /\ lastMessage.status = "streaming"
       /\ data.message = lastMessage.text

\* variant of ReplaceLast that overwrites the first entry
ReplaceFirst(prev, incoming, status) ==
    [prev EXCEPT ![1] = [incoming EXCEPT !.status = status]]

\* { ...lastMessage, ...incomingMessage, status }: every field of the
\* incoming entry overwrites the last entry's, the id included.
ReplaceLast(prev, incoming, status) ==
    [prev EXCEPT ![Len(prev)] = [incoming EXCEPT !.status = status]]

\* variant of ReconcileMessages that finalizes a last entry of any status
ReconcileFinalizeAnyStatus(prev, incoming, data) ==
    IF Len(prev) = 0 THEN <<incoming>>
    ELSE LET lastMessage == prev[Len(prev)] IN
         IF SameSender(lastMessage, incoming) /\ SameTopic(lastMessage, incoming)
         THEN IF ShouldTreatAsInterim(lastMessage, incoming, data)
              THEN ReplaceLast(prev, incoming, "streaming")
              ELSE IF ShouldFinalizeStreaming(lastMessage, data)
                   THEN ReplaceLast(prev, incoming, "sent")
                   ELSE Append(prev, incoming)
         ELSE Append(prev, incoming)

\* The setMessages reducer of the chat branch.
ReconcileMessages(prev, incoming, data) ==
    IF Len(prev) = 0 THEN <<incoming>>
    ELSE LET lastMessage == prev[Len(prev)] IN
         IF SameSender(lastMessage, incoming) /\ SameTopic(lastMessage, incoming)
         THEN IF ShouldTreatAsInterim(lastMessage, incoming, data)
              THEN ReplaceLast(prev, incoming, "streaming")
              ELSE IF /\ ShouldFinalizeStreaming(lastMessage, data)
                      /\ lastMessage.status = "streaming"
                   THEN ReplaceLast(prev, incoming, "sent")
                   ELSE Append(prev, incoming)
         ELSE Append(prev, incoming)

\* `Status: ${data.message}`
StatusText(message) == <<"Status: ">> \o message

\* variant of HasRoom that looks at the client only
HasClient == clientRef = "client"

\* clientRef.current?.currentRoom
HasRoom == clientRef = "client" /\ roomUp

\* The room listeners are attached by the effect that runs when
\* connectionStatus becomes "connected" and removed when it changes again.
Listening == connectionStatus = "connected" /\ HasRoom

\* What handleDataReceived(payload, participant, kind, topic) leaves in the
\* transcript and in the loading indicator.  kind only sets the delivery
\* field, which is not modelled.
DataReceived(payload, participant, topic) ==
    LET data == ParseDataChannelMessage(payload)
        same == [messages |-> messages,
                 isAssistantLoading |-> isAssistantLoading]
    IN
    IF ~data.ok THEN same
    ELSE LET incoming == IncomingMessage(data, participant, topic) IN
         IF incoming.topic = "chat"
         THEN [messages |-> ReconcileMessages(messages, incoming, data),
               isAssistantLoading |->
                   IF incoming.role = "assistant" THEN FALSE
                   ELSE isAssistantLoading]
         ELSE IF incoming.topic = "status"
         THEN [messages |-> AddMessage(messages, "system",
                                       StatusText(data.message), Undefined),
               isAssistantLoading |-> isAssistantLoading]
         ELSE same

\* handleDataReceived, dispatched by the room while the listeners are attached
HandleDataReceived(payload, participant, topic) ==
    /\ Listening
    /\ LET after == DataReceived(payload, participant, topic) IN
       /\ messages' = after.messages
       /\ isAssistantLoading' = after.isAssistantLoading
    /\ UNCHANGED <<connVars, error, pending>>

\* handleParticipantConnected(participant); identity may be the empty string
HandleParticipantConnected(identity) ==
    /\ Listening
    /\ messages' = AddMessage(messages, "system",
            <<IF identity # "" THEN identity ELSE "A participant",
              " joined the room">>, Undefined)
    /\ UNCHANGED <<isAssistantLoading, connVars, error, pending>>

\* handleParticipantDisconnected(participant)
HandleParticipantDisconnected(identity) ==
    /\ Listening
    /\ messages' = AddMessage(messages, "system",
            <<IF identity # "" THEN identity ELSE "A participant",
              " left the room">>, Undefined)
    /\ isAssistantLoading' = FALSE
    /\ UNCHANGED <<connVars, error, pending>>

-----------------------------------------------------------------------------
(* Browser client: connect and disconnect *)

\* variant of Connect without the test of actionInFlightRef
ConnectUnguarded(wa) ==
    /\ actionInFlight' = TRUE
    /\ error' = Undefined
    /\ connectionStatus' = "connecting"
    /\ micStatus' = IF wa THEN "starting" ELSE micStatus
    /\ playbackBlocked' = FALSE
    /\ clientRef' = "client"
    /\ roomUp' = FALSE
    /\ connPc' = "connect"
    /\ withAudio' = wa
    /\ UNCHANGED <<chatVars, pending>>

\* connect(withAudio) up to its first await (client.connect()); a call made
\* while an action is in flight returns at once.
Connect(wa) ==
    IF actionInFlight
    THEN UNCHANGED clientVars
    ELSE /\ actionInFlight' = TRUE
         /\ error' = Undefined
         /\ connectionStatus' = "connecting"
         /\ micStatus' = IF wa THEN "starting" ELSE micStatus
         /\ playbackBlocked' = FALSE
         /\ clientRef' = "client"
         /\ roomUp' = FALSE
         /\ connPc' = "connect"
         /\ withAudio' = wa
         /\ UNCHANGED <<chatVars, pending>>

\* variant of ConnectFailed without the finally block
ConnectFailedKeepsGuard ==
    /\ clientRef' = "null"
    /\ roomUp' = FALSE
    /\ connectionStatus' = "error"
    /\ micStatus' = "off"
    /\ error' = "connection failed"
    /\ actionInFlight' = actionInFlight
    /\ connPc' = "idle"
    /\ UNCHANGED <<chatVars, playbackBlocked, withAudio, pending>>

\* the catch and finally blocks of connect()
ConnectFailed ==
    /\ clientRef' = "null"
    /\ roomUp' = FALSE
    /\ connectionStatus' = "error"
    /\ micStatus' = "off"
    /\ error' = "connection failed"
    /\ actionInFlight' = FALSE
    /\ connPc' = "idle"
    /\ UNCHANGED <<chatVars, playbackBlocked, withAudio, pending>>

\* client.connect() resolved: up to the await of tryPlayAudio
ConnectResolved ==
    /\ connPc = "connect"
    /\ connectionStatus' = "connected"
    /\ roomUp' = TRUE
    /\ connPc' = "playback"
    /\ UNCHANGED <<chatVars, micStatus, playbackBlocked, clientRef,
                   actionInFlight, withAudio, error, pending>>

\* client.connect() rejected (the token fetch included)
ConnectRejected == connPc = "connect" /\ ConnectFailed

\* tryPlayAudio resolved with playbackOk: up to the await of
\* publishMicrophone (Call flow) or to the end of connect() (Start Chat).
PlaybackSettled(playbackOk) ==
    /\ connPc = "playback"
    /\ playbackBlocked' = IF playbackOk THEN playbackBlocked ELSE TRUE
    /\ IF withAudio
       THEN /\ connPc' = "mic"
            /\ UNCHANGED <<messages, actionInFlight>>
       ELSE /\ messages' = AddMessage(messages, "system",
                                      <<"Connected to chat room">>, Undefined)
            /\ actionInFlight' = FALSE
            /\ connPc' = "idle"
    /\ UNCHANGED <<isAssistantLoading, connectionStatus, micStatus, clientRef,
                   roomUp, withAudio, error, pending>>

\* tryPlayAudio rethrew an error of audio.play()
PlaybackThrew == connPc = "playback" /\ ConnectFailed

\* publishMicrophone resolved
MicPublished ==
    /\ connPc = "mic"
    /\ micStatus' = "on"
    /\ messages' = AddMessage(messages, "system",
            <<"Connected to voice room with microphone enabled">>, Undefined)
    /\ actionInFlight' = FALSE
    /\ connPc' = "idle"
    /\ UNCHANGED <<isAssistantLoading, connectionStatus, playbackBlocked,
                   clientRef, roomUp, withAudio, error, pending>>

\* publishMicrophone rejected (permission denied)
MicFailed ==
    /\ connPc = "mic"
    /\ micStatus' = "error"
    /\ error' = "microphone failed"
    /\ messages' = AddMessage(messages, "system",
            <<"Connected but microphone failed: ", "microphone failed">>,
            Undefined)
    /\ actionInFlight' = FALSE
    /\ connPc' = "idle"
    /\ UNCHANGED <<isAssistantLoading, connectionStatus, playbackBlocked,
                   clientRef, roomUp, withAudio, pending>>

\* the statements of handleDisconnect after its try block
DisconnectFinish ==
    /\ connectionStatus' = "idle"
    /\ micStatus' = "off"
    /\ playbackBlocked' = FALSE
    /\ messages' = AddMessage(messages, "system",
                              <<"Disconnected from room">>, Undefined)
    /\ actionInFlight' = FALSE
    /\ connPc' = "idle"
    /\ UNCHANGED <<isAssistantLoading, withAudio, error, pending>>

\* handleDisconnect() up to its await (or to its end when there is no client)
HandleDisconnect ==
    IF actionInFlight
    THEN UNCHANGED clientVars
    ELSE IF clientRef = "client"
         THEN /\ actionInFlight' = TRUE
              /\ connPc' = "disconnect"
              /\ UNCHANGED <<chatVars, connectionStatus, micStatus,
                             playbackBlocked, clientRef, roomUp, withAudio,
                             error, pending>>
         ELSE /\ DisconnectFinish
              /\ UNCHANGED <<clientRef, roomUp>>

\* client.disconnect() settled; a rejection is ignored and leaves clientRef
DisconnectSettled(resolved) ==
    /\ connPc = "disconnect"
    /\ IF resolved
       THEN clientRef' = "null" /\ roomUp' = FALSE
       ELSE UNCHANGED <<clientRef, roomUp>>
    /\ DisconnectFinish

-----------------------------------------------------------------------------
(* Browser client: outbound send pipeline *)

\* an absent retryMessageId (identifiers are numbers from 0)
NoId == -1

\* updateMessageStatus(messageId, status)
UpdateMessageStatus(prev, messageId, status) ==
    [i \in 1..Len(prev) |->
        IF prev[i].id = messageId THEN [prev[i] EXCEPT !.status = status]
        ELSE prev[i]]

\* the entry handleSendMessage builds for a new message
LocalEntry(text, identity, status) ==
    [id |-> GenerateId, role |-> "user", text |-> text,
     senderId |-> IF identity # "" THEN identity ELSE "user",
     topic |-> "chat", status |-> status]

\* no publishData call
NoPayload == [message |-> <<>>, topic |-> Undefined, role |-> Undefined]

\* the payload handleSendMessage builds
ChatPayload(text) == [message |-> text, topic |-> "chat", role |-> "user"]

\* What handleSendMessage(text, retryMessageId) leaves, up to the publishData
\* promise, in the transcript, in the error banner and in the set of
\* publishes in flight, and the payload it hands to publishData; identity is
\* config.participantIdentity, encodeThrows a failure of the synchronous part
\* of the try block.
SendMessage(text, retryMessageId, identity, encodeThrows) ==
    LET retrying == retryMessageId # NoId
        marked == IF retrying
                  THEN UpdateMessageStatus(messages, retryMessageId, "sending")
                  ELSE messages
    IN
    IF ~HasRoom
    THEN [messages |->
              IF ~retrying
              THEN Append(marked, LocalEntry(text, identity, "failed"))
              ELSE UpdateMessageStatus(marked, retryMessageId, "failed"),
          error |-> "not connected",
          pending |-> pending,
          payload |-> NoPayload]
    ELSE LET entry == LocalEntry(text, identity, "sending")
             messageId == IF retrying THEN retryMessageId ELSE entry.id
             shown == IF retrying THEN marked ELSE Append(marked, entry)
         IN  IF encodeThrows
             THEN [messages |-> UpdateMessageStatus(shown, messageId, "failed"),
                   error |-> "send failed",
                   pending |-> pending,
                   payload |-> NoPayload]
             ELSE [messages |-> shown,
                   error |-> error,
                   pending |-> pending \cup {messageId},
                   payload |-> ChatPayload(text)]

\* handleSendMessage(text, retryMessageId)
HandleSendMessage(text, retryMessageId, identity, encodeThrows) ==
    LET after == SendMessage(text, retryMessageId, identity, encodeThrows) IN
    /\ messages' = after.messages
    /\ error' = after.error
    /\ pending' = after.pending
    /\ UNCHANGED <<isAssistantLoading, connVars>>

\* messages.find((m) => m.id === messageId): its position, 0 if none
FindMessage(messageId) ==
    LET found == {i \in 1..Len(messages) : messages[i].id = messageId} IN
    IF found = {} THEN 0
    ELSE CHOOSE i \in found : \A j \in found : i <= j

\* a handler that returns without doing anything
NothingSent ==
    [messages |-> messages, error |-> error, pending |-> pending,
     payload |-> NoPayload]

\* variant of RetryMessage that does not look at the status of the entry
RetryMessageAnyStatus(messageId, identity, encodeThrows) ==
    LET at == FindMessage(messageId) IN
    IF at # 0
    THEN SendMessage(messages[at].text, messageId, identity, encodeThrows)
    ELSE NothingSent

\* what handleRetryMessage(messageId) leaves and publishes
RetryMessage(messageId, identity, encodeThrows) ==
    LET at == FindMessage(messageId) IN
    IF at # 0 /\ messages[at].status = "failed"
    THEN SendMessage(messages[at].text, messageId, identity, encodeThrows)
    ELSE NothingSent

\* handleRetryMessage(messageId)
HandleRetryMessage(messageId, identity, encodeThrows) ==
    LET after == RetryMessage(messageId, identity, encodeThrows) IN
    /\ messages' = after.messages
    /\ error' = after.error
    /\ pending' = after.pending
    /\ UNCHANGED <<isAssistantLoading, connVars>>

\* publishData(...).then(...)
PublishResolved(messageId) ==
    /\ messageId \in pending
    /\ pending' = pending \ {messageId}
    /\ messages' = UpdateMessageStatus(messages, messageId, "sent")
    /\ isAssistantLoading' = TRUE
    /\ UNCHANGED <<connVars, error>>

\* publishData(...).catch(...)
PublishRejected(messageId) ==
    /\ messageId \in pending
    /\ pending' = pending \ {messageId}
    /\ messages' = UpdateMessageStatus(messages, messageId, "failed")
    /\ error' = "send failed"
    /\ UNCHANGED <<isAssistantLoading, connVars>>

-----------------------------------------------------------------------------
(* Server: texts, fallback lines, sentence extraction *)

\* characters matched by \s (those the streams of the model carry)
Whitespace == {" ", "\n"}

\* the class [.!?]
Terminators == {".", "!", "?"}

RECURSIVE TrimStart(_)
TrimStart(s) ==
    IF s # <<>> /\ Head(s) \in Whitespace THEN TrimStart(Tail(s)) ELSE s

RECURSIVE TrimEnd(_)
TrimEnd(s) ==
    IF s # <<>> /\ s[Len(s)] \in Whitespace
    THEN TrimEnd(SubSeq(s, 1, Len(s) - 1))
    ELSE s

\* String.prototype.trim
Trim(s) == TrimEnd(TrimStart(s))

\* FALLBACK_RESPONSES; a line is a text of one symbol, never cut or trimmed
FALLBACK_RESPONSES ==
    << <<"I'm having trouble understanding. Could you try again?">>,
       <<"I couldn't process that. Could you rephrase?">>,
       <<"Something went wrong on my end. Please try again.">> >>

\* Math.floor(Math.random() * FALLBACK_RESPONSES.length)
FallbackIndices == 0..(Len(FALLBACK_RESPONSES) - 1)

\* getRandomFallbackResponse(), for the index drawn
GetRandomFallbackResponse(index) == FALLBACK_RESPONSES[index + 1]

\* variant of MatchAt without the end-of-buffer alternative
MatchBeforeWhitespace(buffer, i) ==
    /\ buffer[i] \in Terminators
    /\ i < Len(buffer)
    /\ buffer[i + 1] \in Whitespace

\* /([.!?])(?:\s+|$)/ matches with its terminator at position i
MatchAt(buffer, i) ==
    /\ buffer[i] \in Terminators
    /\ \/ i = Len(buffer)
       \/ buffer[i + 1] \in Whitespace

\* position of the terminator of the first match at or after from, 0 if none
NextMatch(buffer, from) ==
    LET found == {i \in from..Len(buffer) : MatchAt(buffer, i)}
    IN  IF found = {} THEN 0
        ELSE CHOOSE i \in found : \A j \in found : i <= j

\* end of the match whose terminator is at i: the whitespace run behind it
RECURSIVE MatchEnd(_, _)
MatchEnd(buffer, i) ==
    IF i < Len(buffer) /\ buffer[i + 1] \in Whitespace
    THEN MatchEnd(buffer, i + 1)
    ELSE i

\* the while loop of extractCompleteSentences, from lastIndex on
RECURSIVE ScanSentences(_, _, _)
ScanSentences(buffer, lastIndex, sentences) ==
    LET i == NextMatch(buffer, lastIndex + 1) IN
    IF i = 0
    THEN [extracted |-> sentences,
          remaining |-> SubSeq(buffer, lastIndex + 1, Len(buffer))]
    ELSE LET endPos == MatchEnd(buffer, i)
             sentence == Trim(SubSeq(buffer, lastIndex + 1, endPos))
         IN  ScanSentences(buffer, endPos,
                           IF sentence # <<>> THEN Append(sentences, sentence)
                           ELSE sentences)

\* extractCompleteSentences(buffer)
ExtractCompleteSentences(buffer) == ScanSentences(buffer, 0, <<>>)

-----------------------------------------------------------------------------
(* Server: conversation history *)

\* maxHistoryMessages
MaxHistoryMessages == 20

\* room names
Rooms == {"r1", "r2"}

\* Array.prototype.slice(start), start an integer
JsSlice(seq, start) ==
    LET n == Len(seq)
        from == IF start < 0
                THEN (IF n + start > 0 THEN n + start ELSE 0)
                ELSE (IF start < n THEN start ELSE n)
    IN  SubSeq(seq, from + 1, n)

\* variant of AddToHistory that keeps the oldest half when it prunes
AddToHistoryKeepOldest(stored, role, content) ==
    LET pushed == Append(stored, [role |-> role, content |-> content]) IN
    IF Len(pushed) > MaxHistoryMessages
    THEN SubSeq(pushed, 1, MaxHistoryMessages \div 2)
    ELSE pushed

\* addToHistory(roomName, role, content), on the room's stored messages
AddToHistory(stored, role, content) ==
    LET pushed == Append(stored, [role |-> role, content |-> content]) IN
    IF Len(pushed) > MaxHistoryMessages
    THEN JsSlice(pushed, -(MaxHistoryMessages \div 2))
    ELSE pushed

\* variant of SaveExchange that stores the response before the transcript
SaveExchangeResponseFirst(stored, roomName, transcript, response) ==
    IF Truthy(roomName)
    THEN [stored EXCEPT ![roomName] =
             AddToHistory(AddToHistory(@, "assistant", response),
                          "user", transcript)]
    ELSE stored

\* variant of SaveExchange whose two appends are apart: the last stored
\* message comes between the transcript and the response
SaveExchangeApart(stored, roomName, transcript, response) ==
    IF Truthy(roomName)
    THEN LET was == stored[roomName]
             n == Len(was)
             between == IF n = 0 THEN <<>> ELSE <<was[n]>>
             user == AddToHistory(SubSeq(was, 1, n - 1), "user", transcript)
             both == IF n = 0 THEN user
                     ELSE AddToHistory(user, was[n].role, was[n].content)
         IN  [stored EXCEPT ![roomName] =
                 AddToHistory(both, "assistant", response)]
    ELSE stored

\* if (roomName) { addToHistory(user, transcript); addToHistory(assistant, text) }
SaveExchange(stored, roomName, transcript, response) ==
    IF Truthy(roomName)
    THEN [stored EXCEPT ![roomName] =
             AddToHistory(AddToHistory(@, "user", transcript),
                          "assistant", response)]
    ELSE stored

-----------------------------------------------------------------------------
(* Server: response generation with retry *)

\* maxRetries = 2
DefaultMaxRetries == 2

\* What the observer records of one with-retry call:
\*   delivered   the texts handed to onSentence, in order
\*   modelCalls  the streamText / generateText invocations
\*   trace       how each attempt ended: "ok", "retryable", "ratelimit"
\*               (errors of the model) or "callback" (onSentence threw)
\*   exhausted   number of texts delivered when the retry loop was left
\*   cbThrew     onSentence has thrown
\*   chunkEnds   lengths of fullResponse at the ends of the chunks
\*   outcome     the promise of the call: pending, resolved(text), rejected
\*   queue       sentences extracted from the chunk and not yet handed over
\*   running     calls of onSentence that have not completed
\*   delays      the waits of the retry loop, in milliseconds
ObsStart ==
    [delivered |-> <<>>, modelCalls |-> 0, trace |-> <<>>, exhausted |-> 0,
     cbThrew |-> FALSE, chunkEnds |-> {},
     outcome |-> [kind |-> "pending", text |-> <<>>],
     queue |-> <<>>, running |-> 0, delays |-> <<>>]

Resolved(text) == [kind |-> "resolved", text |-> text]

Rejected == [kind |-> "rejected", text |-> <<>>]

NoCall == [variant |-> "none", transcript |-> <<>>, roomName |-> Undefined]

\* variant of BlankTranscript without the trim
EmptyTranscript == call.transcript = <<>>

\* !transcript.trim()
BlankTranscript == Trim(call.transcript) = <<>>

\* The caller invokes generateStreamingResponseWithRetry (variant "streaming")
\* or generateResponseWithRetry (variant "plain").
GenerateStart(variant, transcript, roomName) ==
    /\ pc = "idle"
    /\ call' = [variant |-> variant, transcript |-> transcript,
                roomName |-> roomName]
    /\ attempt' = 0
    /\ pc' = "attempt"
    /\ fullResponse' = <<>>
    /\ sentenceBuffer' = <<>>
    /\ obs' = ObsStart
    /\ UNCHANGED <<history, clientVars, mon>>

\* The catch block of the retry loop after an attempt threw: break on an
\* AiGenerationError that is not retryable, else wait and retry while
\* attempt < maxRetries, else leave the loop.
\* base of this.delay(1000 * (attempt + 1)), in milliseconds
DelayBase == 1000

\* variant of AttemptFailed that records what the failed attempt had streamed
AttemptFailedSavesPartial(result, retryable, delivered) ==
    LET again == retryable /\ attempt < DefaultMaxRetries IN
    /\ pc' = IF again THEN "delay" ELSE "fallback"
    /\ obs' = [obs EXCEPT !.delivered = delivered,
                          !.trace = Append(@, result),
                          !.cbThrew = @ \/ result = "callback",
                          !.exhausted = IF again THEN @ ELSE Len(delivered),
                          !.delays = IF again
                                     THEN Append(@, DelayBase * (attempt + 1))
                                     ELSE @]
    /\ history' = IF fullResponse # <<>>
                  THEN SaveExchange(history, call.roomName, call.transcript,
                                    fullResponse)
                  ELSE history
    /\ fullResponse' = <<>>
    /\ sentenceBuffer' = <<>>
    /\ UNCHANGED <<call, attempt, clientVars, mon>>

\* variant of AttemptFailed that ignores isRetryable
AttemptFailedAlwaysRetry(result, retryable, delivered) ==
    LET again == attempt < DefaultMaxRetries IN
    /\ pc' = IF again THEN "delay" ELSE "fallback"
    /\ obs' = [obs EXCEPT !.delivered = delivered,
                          !.trace = Append(@, result),
                          !.cbThrew = @ \/ result = "callback",
                          !.exhausted = IF again THEN @ ELSE Len(delivered),
                          !.delays = IF again
                                     THEN Append(@, DelayBase * (attempt + 1))
                                     ELSE @]
    /\ fullResponse' = <<>>
    /\ sentenceBuffer' = <<>>
    /\ UNCHANGED <<call, attempt, history, clientVars, mon>>

AttemptFailed(result, retryable, delivered) ==
    LET again == retryable /\ attempt < DefaultMaxRetries IN
    /\ pc' = IF again THEN "delay" ELSE "fallback"
    /\ obs' = [obs EXCEPT !.delivered = delivered,
                          !.trace = Append(@, result),
                          !.cbThrew = @ \/ result = "callback",
                          !.exhausted = IF again THEN @ ELSE Len(delivered),
                          !.delays = IF again
                                     THEN Append(@, DelayBase * (attempt + 1))
                                     ELSE @]
    /\ fullResponse' = <<>>
    /\ sentenceBuffer' = <<>>
    /\ UNCHANGED <<call, attempt, history, clientVars, mon>>

\* how an error of the model is recorded
ModelError(retryable) == IF retryable THEN "retryable" ELSE "ratelimit"

\* await this.delay(...) is over: attempt++ and the next attempt
DelayEnds ==
    /\ pc = "delay"
    /\ attempt' = attempt + 1
    /\ pc' = "attempt"
    /\ UNCHANGED <<call, fullResponse, sentenceBuffer, obs, history,
                   clientVars, mon>>

\* generateStreamingResponse with a blank transcript: the fallback line goes
\* to onSentence and is returned; an error of onSentence leaves the function
\* unwrapped and the retry loop treats it as retryable.
StreamingBlank(index, cbOk) ==
    LET fallback == GetRandomFallbackResponse(index)
        delivered == Append(obs.delivered, fallback)
    IN
    /\ pc = "attempt"
    /\ call.variant = "streaming"
    /\ BlankTranscript
    /\ IF cbOk
       THEN /\ pc' = "done"
            /\ obs' = [obs EXCEPT !.delivered = delivered,
                                  !.trace = Append(@, "ok"),
                                  !.outcome = Resolved(fallback)]
            /\ UNCHANGED <<call, attempt, fullResponse, sentenceBuffer,
                           history, clientVars, mon>>
       ELSE AttemptFailed("callback", TRUE, delivered)

\* generateStreamingResponse up to the first chunk: buildMessages, streamText
StreamingOpen ==
    /\ pc = "attempt"
    /\ call.variant = "streaming"
    /\ ~BlankTranscript
    /\ pc' = "stream"
    /\ fullResponse' = <<>>
    /\ sentenceBuffer' = <<>>
    /\ obs' = [obs EXCEPT !.modelCalls = @ + 1, !.chunkEnds = {}]
    /\ UNCHANGED <<call, attempt, history, clientVars, mon>>

\* One iteration of the stream loop.  throwAt = 0: every onSentence returned;
\* throwAt = k: the k-th sentence of this chunk made onSentence throw an
\* error that isRetryableError classifies as retryable or not.
StreamChunk(chunk, throwAt, retryable) ==
    LET buffer == sentenceBuffer \o chunk
        sentences == ExtractCompleteSentences(buffer)
        n == Len(sentences.extracted)
    IN
    /\ pc = "stream"
    /\ throwAt <= n
    /\ IF throwAt = 0
       THEN /\ fullResponse' = fullResponse \o chunk
            /\ sentenceBuffer' = IF n > 0 THEN sentences.remaining ELSE buffer
            /\ obs' = [obs EXCEPT
                         !.delivered = @ \o sentences.extracted,
                         !.chunkEnds = @ \cup {Len(fullResponse) + Len(chunk)}]
            /\ UNCHANGED <<call, pc, attempt, history, clientVars, mon>>
       ELSE AttemptFailed("callback", retryable,
                obs.delivered \o SubSeq(sentences.extracted, 1, throwAt))

\* The stream (or the finish reason or usage awaited behind it) failed.
StreamFails(retryable) ==
    /\ pc = "stream"
    /\ AttemptFailed(ModelError(retryable), retryable, obs.delivered)

\* variant of Remaining that drops the rest
RemainingDropped(buffer) == <<>>

\* variant of Remaining that does not trim
RemainingUntrimmed(buffer) == buffer

\* const remaining = sentenceBuffer.trim()
Remaining(buffer) == Trim(buffer)

\* The stream ended: the trimmed rest of the buffer goes to onSentence, the
\* exchange is saved and the full response returned.
StreamEnds(cbOk, retryable) ==
    LET remaining == Remaining(sentenceBuffer)
        delivered == IF remaining # <<>> THEN Append(obs.delivered, remaining)
                     ELSE obs.delivered
    IN
    /\ pc = "stream"
    /\ IF remaining # <<>> /\ ~cbOk
       THEN AttemptFailed("callback", retryable, delivered)
       ELSE /\ cbOk
            /\ history' = SaveExchange(history, call.roomName,
                                       call.transcript, fullResponse)
            /\ pc' = "done"
            /\ obs' = [obs EXCEPT !.delivered = delivered,
                                  !.trace = Append(@, "ok"),
                                  !.outcome = Resolved(fullResponse)]
            /\ UNCHANGED <<call, attempt, fullResponse, sentenceBuffer,
                           clientVars, mon>>

\* The stream loop again, one step per await, onSentence returning a promise
\* that completes later and does not throw.

\* variant of Awaited for a loop that does not await onSentence
NotAwaited == TRUE

\* await onSentence(...): the function goes on when the promise has settled
Awaited == obs.running = 0

\* for await: the next chunk, appended and cut into sentences
ChunkArrives(chunk) ==
    LET buffer == sentenceBuffer \o chunk
        sentences == ExtractCompleteSentences(buffer)
    IN
    /\ pc = "stream"
    /\ obs.queue = <<>>
    /\ Awaited
    /\ fullResponse' = fullResponse \o chunk
    /\ sentenceBuffer' = IF sentences.extracted # <<>> THEN sentences.remaining
                         ELSE buffer
    /\ obs' = [obs EXCEPT
                 !.queue = sentences.extracted,
                 !.chunkEnds = @ \cup {Len(fullResponse) + Len(chunk)}]
    /\ UNCHANGED <<call, pc, attempt, history, clientVars, mon>>

\* onSentence(sentence) is called with the next sentence of the chunk, or
\* with the rest of the buffer after the stream
SentenceHandedOver ==
    /\ pc \in {"stream", "rest"}
    /\ obs.queue # <<>>
    /\ Awaited
    /\ obs' = [obs EXCEPT !.queue = Tail(@),
                          !.delivered = Append(@, Head(obs.queue)),
                          !.running = @ + 1]
    /\ UNCHANGED <<call, pc, attempt, fullResponse, sentenceBuffer, history,
                   clientVars, mon>>

\* the promise of a call of onSentence settles
CallbackCompletes ==
    /\ obs.running > 0
    /\ obs' = [obs EXCEPT !.running = @ - 1]
    /\ UNCHANGED <<call, pc, attempt, fullResponse, sentenceBuffer, history,
                   clientVars, mon>>

\* the stream has ended: the trimmed rest of the buffer is the last sentence
StreamDrained ==
    LET remaining == Remaining(sentenceBuffer) IN
    /\ pc = "stream"
    /\ obs.queue = <<>>
    /\ Awaited
    /\ pc' = "rest"
    /\ obs' = [obs EXCEPT
                 !.queue = IF remaining # <<>> THEN <<remaining>> ELSE <<>>]
    /\ UNCHANGED <<call, attempt, fullResponse, sentenceBuffer, history,
                   clientVars, mon>>

\* the exchange is saved and generateStreamingResponse returns
StreamReturns ==
    /\ pc = "rest"
    /\ obs.queue = <<>>
    /\ Awaited
    /\ history' = SaveExchange(history, call.roomName, call.transcript,
                               fullResponse)
    /\ pc' = "done"
    /\ obs' = [obs EXCEPT !.trace = Append(@, "ok"),
                          !.outcome = Resolved(fullResponse)]
    /\ UNCHANGED <<call, attempt, fullResponse, sentenceBuffer, clientVars, mon>>

\* generateResponse with a blank transcript
PlainBlank(index) ==
    /\ pc = "attempt"
    /\ call.variant = "plain"
    /\ BlankTranscript
    /\ pc' = "done"
    /\ obs' = [obs EXCEPT !.trace = Append(@, "ok"),
                          !.outcome = Resolved(GetRandomFallbackResponse(index))]
    /\ UNCHANGED <<call, attempt, fullResponse, sentenceBuffer, history,
                   clientVars, mon>>

\* generateResponse up to await generateText(...)
PlainOpen ==
    /\ pc = "attempt"
    /\ call.variant = "plain"
    /\ ~BlankTranscript
    /\ pc' = "generate"
    /\ obs' = [obs EXCEPT !.modelCalls = @ + 1]
    /\ UNCHANGED <<call, attempt, fullResponse, sentenceBuffer, history,
                   clientVars, mon>>

\* generateText resolved with text
GenerateReturns(text) ==
    /\ pc = "generate"
    /\ history' = SaveExchange(history, call.roomName, call.transcript, text)
    /\ pc' = "done"
    /\ obs' = [obs EXCEPT !.trace = Append(@, "ok"), !.outcome = Resolved(text)]
    /\ UNCHANGED <<call, attempt, fullResponse, sentenceBuffer, clientVars, mon>>

\* generateText rejected
GenerateFails(retryable) ==
    /\ pc = "generate"
    /\ AttemptFailed(ModelError(retryable), retryable, obs.delivered)

\* Behind the retry loop: the fallback line is drawn, handed to onSentence
\* (streaming variant) and returned; an error of onSentence rejects the call.
Fallback(index, cbOk) ==
    LET fallback == GetRandomFallbackResponse(index) IN
    /\ pc = "fallback"
    /\ pc' = "done"
    /\ IF call.variant = "streaming"
       THEN obs' = [obs EXCEPT
                      !.delivered = Append(@, fallback),
                      !.cbThrew = @ \/ ~cbOk,
                      !.outcome = IF cbOk THEN Resolved(fallback) ELSE Rejected]
       ELSE /\ cbOk
            /\ obs' = [obs EXCEPT !.outcome = Resolved(fallback)]
    /\ UNCHANGED <<call, attempt, fullResponse, sentenceBuffer, history,
                   clientVars, mon>>

\* the caller has the result; the service is ready for the next call
CallReturns ==
    /\ pc = "done"
    /\ pc' = "idle"
    /\ call' = NoCall
    /\ obs' = ObsStart
    /\ UNCHANGED <<attempt, fullResponse, sentenceBuffer, history,
                   clientVars, mon>>

\* variant of ClearHistory that empties the whole store
ClearEveryHistory(roomName) ==
    /\ history' = [r \in Rooms |-> <<>>]
    /\ UNCHANGED <<genVars, clientVars, mon>>

\* clearHistory(roomName): VoiceAgent.stop()
ClearHistory(roomName) ==
    /\ history' = [history EXCEPT ![roomName] = <<>>]
    /\ UNCHANGED <<genVars, clientVars, mon>>

\* the service after construction
InitServer ==
    /\ history = [r \in Rooms |-> <<>>]
    /\ call = NoCall
    /\ pc = "idle"
    /\ attempt = 0
    /\ fullResponse = <<>>
    /\ sentenceBuffer = <<>>
    /\ obs = ObsStart

-----------------------------------------------------------------------------
(* Server: the voice agent of a room *)

\* the room of the agent
AgentRoom == "r1"

\* A VoiceAgent after construction.  starting: start() awaits
\* client.connect(); stopped: the body of stop() has run; late: a message or
\* a speech request reached the client after stop(); muted: a request was
\* dropped after stop() (late and muted are observations, not program state);
\* beside: calls of processTranscript that passed their guard while the
\* generation followed step by step was running, and have not returned.
AgentNew ==
    [isRunning |-> FALSE, starting |-> FALSE, stopped |-> FALSE,
     late |-> FALSE, muted |-> FALSE, beside |-> 0]

\* variant of AgentLive that tests client.ready only
ClientReady(ready) == ready

\* the guard of sendTranscriptMessage, sendAiResponseMessage and of the
\* calls of client.speak: this.isRunning && this.client.ready
AgentLive(ready) == agent.isRunning /\ ready

\* the agent after n guarded requests (sendMessage, speak) in one step
AfterRequests(n, ready) ==
    [agent EXCEPT
       !.late = @ \/ (n > 0 /\ agent.stopped /\ AgentLive(ready)),
       !.muted = @ \/ (n > 0 /\ agent.stopped /\ ~AgentLive(ready))]

\* start() up to await this.client.connect()
AgentStart ==
    /\ ~agent.isRunning
    /\ ~agent.starting
    /\ ~agent.stopped
    /\ agent' = [agent EXCEPT !.starting = TRUE]
    /\ UNCHANGED <<history, genVars, clientVars, mon>>

\* client.connect() resolved: isRunning = true and the greeting
AgentConnected ==
    /\ agent.starting
    /\ agent' = [agent EXCEPT !.starting = FALSE, !.isRunning = TRUE]
    /\ UNCHANGED <<history, genVars, clientVars, mon>>

\* stop(), called by the participant-disconnected callback
AgentStop ==
    IF ~agent.isRunning
    THEN UNCHANGED <<agent, history, genVars, clientVars, mon>>
    ELSE /\ agent' = [agent EXCEPT !.isRunning = FALSE, !.stopped = TRUE]
         /\ ClearHistory(AgentRoom)

\* variant of Submits with a guard on the generation in flight
SubmitsWhenIdle(ready, busy) == AgentLive(ready) /\ ~busy

\* processTranscript calls generateStreamingResponseWithRetry: its guard is
\* passed; busy: a generation of the room is in flight
Submits(ready, busy) == AgentLive(ready)

\* the with-retry call of the agent that is followed step by step is running
GenerationRunning == pc \notin {"idle", "done"}

\* generations of the room of the agent that are in flight
GenerationsInFlight == agent.beside + (IF GenerationRunning THEN 1 ELSE 0)

\* the STT callback with a final transcript: the transcript message, then
\* processTranscript up to the with-retry call
AgentFinalTranscript(transcript, ready) ==
    /\ pc = "idle"
    /\ agent' = AfterRequests(1, ready)
    /\ IF Submits(ready, GenerationsInFlight > 0)
       THEN GenerateStart("streaming", transcript, AgentRoom)
       ELSE UNCHANGED <<history, genVars, clientVars, mon>>

\* the STT callback with a final transcript while the generation of an
\* earlier one has not returned
AgentFinalTranscriptBeside(ready) ==
    /\ pc # "idle"
    /\ agent' = [AfterRequests(1, ready) EXCEPT
                   !.beside = IF Submits(ready, GenerationsInFlight > 0)
                              THEN @ + 1 ELSE @]
    /\ UNCHANGED <<history, genVars, clientVars, mon>>

\* a generation beside the one followed returns: the exchange is saved when
\* an attempt succeeded, then the final message of processTranscript
AgentBesideReturns(transcript, response, succeeded, ready) ==
    /\ agent.beside > 0
    /\ agent' = [AfterRequests(1, ready) EXCEPT !.beside = @ - 1]
    /\ history' = IF succeeded
                  THEN SaveExchange(history, AgentRoom, transcript, response)
                  ELSE history
    /\ UNCHANGED <<genVars, clientVars, mon>>

\* the callback processTranscript hands to the generator ran for the texts
\* delivered in this step; it can throw only out of client.speak
AgentCallbacks(threw, ready) ==
    /\ threw => AgentLive(ready)
    /\ agent' = AfterRequests(Len(obs'.delivered) - Len(obs.delivered), ready)

\* processTranscript behind the with-retry call: the final message, or the
\* message and the speech of the catch block
AgentCallReturns(ready) ==
    /\ CallReturns
    /\ agent' = AfterRequests(IF obs.outcome.kind = "resolved" THEN 1 ELSE 2,
                              ready)

-----------------------------------------------------------------------------
(* Observer of the inbound traffic: follows, from the empty transcript, a run
   of interim chat messages of one sender with growing texts, the final
   message that ends it, and a repeated delivery of that final message. *)

MonOff == [phase |-> "off", sender |-> <<>>, text |-> <<>>, interims |-> 0,
           strict |-> FALSE, same |-> FALSE]

MonStart == [MonOff EXCEPT !.phase = "start"]

MarkedInterim(data) == HasExplicitInterim(data)

MarkedFinal(data) == HasExplicitFinal(data) /\ ~HasExplicitInterim(data)

\* who sent the event: transport identity, payload identity and role
EventSender(e, data) == <<e.participant, data.identity, data.role>>

MonAfter(e) ==
    LET data == ParseDataChannelMessage(e.payload) IN
    IF ~data.ok \/ MessageTopic(data, e.topic) # "chat" THEN MonOff
    ELSE IF mon.phase = "start" /\ MarkedInterim(data)
    THEN [phase |-> "interims", sender |-> EventSender(e, data),
          text |-> data.message, interims |-> 1, strict |-> TRUE,
          same |-> FALSE]
    ELSE IF /\ mon.phase = "interims"
            /\ EventSender(e, data) = mon.sender
            /\ StartsWith(data.message, mon.text)
            /\ MarkedInterim(data)
    THEN [mon EXCEPT !.text = data.message,
                     !.interims = IF @ < 2 THEN @ + 1 ELSE @,
                     !.strict = @ /\ Len(data.message) > Len(mon.text)]
    ELSE IF /\ mon.phase = "interims"
            /\ EventSender(e, data) = mon.sender
            /\ StartsWith(data.message, mon.text)
            /\ MarkedFinal(data)
    THEN [mon EXCEPT !.phase = "final", !.text = data.message,
                     !.strict = @ /\ Len(data.message) > Len(mon.text),
                     !.same = data.message = mon.text]
    ELSE IF /\ mon.phase = "final"
            /\ mon.same
            /\ EventSender(e, data) = mon.sender
            /\ data.message = mon.text
            /\ MarkedFinal(data)
    THEN [mon EXCEPT !.phase = "refinal"]
    ELSE MonOff

-----------------------------------------------------------------------------
(* Specifications *)

\* The state after construction of App.
Init ==
    /\ messages = <<>>
    /\ isAssistantLoading = FALSE
    /\ connectionStatus = "idle"
    /\ micStatus = "off"
    /\ error = Undefined
    /\ playbackBlocked = FALSE
    /\ clientRef = "null"
    /\ roomUp = FALSE
    /\ actionInFlight = FALSE
    /\ connPc = "idle"
    /\ withAudio = FALSE
    /\ pending = {}
    /\ mon = MonOff
    /\ InitServer
    /\ agent = AgentNew

\* Start Chat has connected and awaits tryPlayAudio: the listeners are
\* attached and the transcript is still empty.
InitConnected(observer) ==
    /\ mon = observer
    /\ messages = <<>>
    /\ isAssistantLoading = FALSE
    /\ connectionStatus = "connected"
    /\ micStatus = "off"
    /\ error = Undefined
    /\ playbackBlocked = FALSE
    /\ clientRef = "client"
    /\ roomUp = TRUE
    /\ actionInFlight = TRUE
    /\ connPc = "playback"
    /\ withAudio = FALSE
    /\ pending = {}
    /\ InitServer
    /\ agent = AgentNew

Inbound(events, maxLen) ==
    \E e \in events :
        /\ HandleDataReceived(e.payload, e.participant, e.topic)
        /\ Len(messages') <= maxLen
        /\ mon' = MonAfter(e)
        /\ UNCHANGED serverVars

PlaybackEnds(maxLen) ==
    \E playbackOk \in BOOLEAN :
        /\ PlaybackSettled(playbackOk)
        /\ Len(messages') <= maxLen
        /\ mon' = MonOff
        /\ UNCHANGED serverVars

NextInbound ==
    \/ Inbound(InboundEvents, MaxInbound)
    \/ PlaybackEnds(MaxInbound)

\* every inbound event, in every order, on a connected client
InitInbound == InitConnected(MonOff)

SpecInbound == InitInbound /\ [][NextInbound]_vars

NextMerge ==
    \/ Inbound(MergeEvents, MaxInbound)
    \/ PlaybackEnds(MaxInbound)

\* one participant's streams, observed from the empty transcript
InitMerge == InitConnected(MonStart)

SpecMerge == InitMerge /\ [][NextMerge]_vars

\* inbound traffic of a typed conversation: the routing events and a few
\* chat messages of the agent and of the transcribed user
PanelEvents ==
    RoutingEvents \cup
    {Event(ObjectPayload(<<"a">>, r, Undefined, Undefined, f), Undefined,
           Undefined) :
        r \in {"user", "ai"},
        f \in {NoFlags, Flags(JsFalse, Undefined, Undefined, Undefined, Undefined),
               Flags(JsTrue, Undefined, Undefined, Undefined, Undefined)}}

\* config.participantIdentity: the default and a name typed into the form
Identities == {"", "me"}

\* texts the input box sends (trimmed, never empty)
SendTexts == {<<"a">>}

\* ids of the entries that show a retry button
RetryIds == {messages[i].id : i \in {j \in 1..Len(messages) :
                                        messages[j].status = "failed"}}

ChatInbound ==
    \E e \in PanelEvents :
        /\ HandleDataReceived(e.payload, e.participant, e.topic)
        /\ Len(messages') <= MaxChat
        /\ UNCHANGED <<mon, serverVars>>

ChatPlaybackEnds ==
    \E playbackOk \in BOOLEAN :
        /\ PlaybackSettled(playbackOk)
        /\ Len(messages') <= MaxChat
        /\ UNCHANGED <<mon, serverVars>>

ChatSend ==
    \E text \in SendTexts, identity \in Identities, encodeThrows \in BOOLEAN :
        /\ connectionStatus = "connected"
        /\ HandleSendMessage(text, NoId, identity, encodeThrows)
        /\ Len(messages') <= MaxChat
        /\ UNCHANGED <<mon, serverVars>>

ChatRetry ==
    \E messageId \in RetryIds, identity \in Identities, encodeThrows \in BOOLEAN :
        /\ HandleRetryMessage(messageId, identity, encodeThrows)
        /\ UNCHANGED <<mon, serverVars>>

ChatPublishResolved ==
    \E messageId \in pending : PublishResolved(messageId) /\ UNCHANGED <<mon, serverVars>>

ChatPublishRejected ==
    \E messageId \in pending : PublishRejected(messageId) /\ UNCHANGED <<mon, serverVars>>

NextChat ==
    \/ ChatInbound
    \/ ChatPlaybackEnds
    \/ ChatSend
    \/ ChatRetry
    \/ ChatPublishResolved
    \/ ChatPublishRejected

InitChat == InitConnected(MonOff)

\* a typed conversation on a connected client: sends, their acknowledgements,
\* retries and inbound traffic in every order
SpecChat == InitChat /\ [][NextChat]_vars

-----------------------------------------------------------------------------
(* Specification of a session: connecting, calling, disconnecting, sending *)

\* longest transcript explored by SpecSession
MaxSession == 2

\* config.participantIdentity of SpecSession
SessionIdentity == "me"

\* Start Chat or Call pressed (or connect called) in any state
SessionConnect ==
    \E wa \in BOOLEAN : Connect(wa) /\ UNCHANGED <<mon, serverVars>>

SessionConnectResolved == ConnectResolved /\ UNCHANGED <<mon, serverVars>>

SessionConnectRejected == ConnectRejected /\ UNCHANGED <<mon, serverVars>>

SessionPlaybackSettled ==
    \E playbackOk \in BOOLEAN :
        /\ PlaybackSettled(playbackOk)
        /\ Len(messages') <= MaxSession
        /\ UNCHANGED <<mon, serverVars>>

SessionPlaybackThrew == PlaybackThrew /\ UNCHANGED <<mon, serverVars>>

SessionMicPublished ==
    /\ MicPublished
    /\ Len(messages') <= MaxSession
    /\ UNCHANGED <<mon, serverVars>>

SessionMicFailed ==
    /\ MicFailed
    /\ Len(messages') <= MaxSession
    /\ UNCHANGED <<mon, serverVars>>

\* Disconnect pressed (or handleDisconnect called) in any state
SessionDisconnect ==
    /\ HandleDisconnect
    /\ Len(messages') <= MaxSession
    /\ UNCHANGED <<mon, serverVars>>

SessionDisconnectSettled ==
    \E resolved \in BOOLEAN :
        /\ DisconnectSettled(resolved)
        /\ Len(messages') <= MaxSession
        /\ UNCHANGED <<mon, serverVars>>

\* the input box submits only while connectionStatus is connected
SessionSend ==
    \E text \in SendTexts, encodeThrows \in BOOLEAN :
        /\ connectionStatus = "connected"
        /\ HandleSendMessage(text, NoId, SessionIdentity, encodeThrows)
        /\ Len(messages') <= MaxSession
        /\ UNCHANGED <<mon, serverVars>>

\* the retry button of a failed entry, in any connection state
SessionRetry ==
    \E messageId \in RetryIds, encodeThrows \in BOOLEAN :
        /\ HandleRetryMessage(messageId, SessionIdentity, encodeThrows)
        /\ UNCHANGED <<mon, serverVars>>

SessionPublishResolved ==
    \E messageId \in pending :
        PublishResolved(messageId) /\ UNCHANGED <<mon, serverVars>>

SessionPublishRejected ==
    \E messageId \in pending :
        PublishRejected(messageId) /\ UNCHANGED <<mon, serverVars>>

NextSession ==
    \/ SessionConnect
    \/ SessionConnectResolved
    \/ SessionConnectRejected
    \/ SessionPlaybackSettled
    \/ SessionPlaybackThrew
    \/ SessionMicPublished
    \/ SessionMicFailed
    \/ SessionDisconnect
    \/ SessionDisconnectSettled
    \/ SessionSend
    \/ SessionRetry
    \/ SessionPublishResolved
    \/ SessionPublishRejected

\* the life of App from its construction
SpecSession == Init /\ [][NextSession]_vars

\* longest transcript explored by SpecGuard
MaxGuard == 3

\* Start Chat, Call or Disconnect pressed in any state
GuardStart ==
    /\ Len(messages) < MaxGuard
    /\ \/ \E wa \in BOOLEAN : Connect(wa)
       \/ HandleDisconnect
    /\ UNCHANGED <<mon, serverVars>>

\* client.connect() settles (the token fetch is part of it)
GuardConnectSettles ==
    (ConnectResolved \/ ConnectRejected) /\ UNCHANGED <<mon, serverVars>>

\* tryPlayAudio settles
GuardPlaybackSettles ==
    /\ \/ \E playbackOk \in BOOLEAN : PlaybackSettled(playbackOk)
       \/ PlaybackThrew
    /\ UNCHANGED <<mon, serverVars>>

\* publishMicrophone settles
GuardMicSettles ==
    (MicPublished \/ MicFailed) /\ UNCHANGED <<mon, serverVars>>

\* client.disconnect() settles
GuardDisconnectSettles ==
    /\ \E resolved \in BOOLEAN : DisconnectSettled(resolved)
    /\ UNCHANGED <<mon, serverVars>>

\* an operation that connect or handleDisconnect awaits settles
GuardSettles ==
    \/ GuardConnectSettles
    \/ GuardPlaybackSettles
    \/ GuardMicSettles
    \/ GuardDisconnectSettles

NextGuard == GuardStart \/ GuardSettles

\* The buttons of App pressed at any moment; every operation that connect
\* or handleDisconnect awaits settles in the end, one way or the other.
SpecGuard == Init /\ [][NextGuard]_vars /\ WF_vars(GuardSettles)

\* longest transcript explored by SpecDecide
MaxDecide == 1

\* message texts of SpecDecide: the empty text, a text, a longer text that
\* starts with it, an unrelated text
DecideTexts == {<<>>, <<"a">>, <<"a", "b">>, <<"b">>}

\* every resolved value of isFinal with every resolved value of interim
DecideFlags ==
    {Flags(f, Undefined, Undefined, i, Undefined) :
        f \in {Undefined, JsTrue, JsFalse}, i \in {Undefined, JsTrue, JsFalse}}

\* (participant identity, payload identity): no sender id but the role, a
\* participant, an empty payload identity
DecideSenders == {<<Undefined, Undefined>>, <<"alice", Undefined>>, <<Undefined, "">>}

\* chat messages of every text, role, sender and resolved flags, and a status
\* message
DecideEvents ==
    {Event(ObjectPayload(m, r, Undefined, sc[2], f), sc[1], Undefined) :
        m \in DecideTexts, r \in {"user", "ai"}, sc \in DecideSenders,
        f \in DecideFlags}
    \cup {Event(ObjectPayload(<<"a">>, "ai", "status", Undefined, NoFlags),
                Undefined, Undefined)}

\* the messages that build the last entries of SpecDecide: flagless, marked
\* interim, marked final
DecideSteps ==
    {e \in DecideEvents :
        /\ e.payload.is_final \in {Undefined, JsTrue}
        /\ e.payload.interim \in {Undefined, JsTrue}
        /\ e.payload.is_final = Undefined \/ e.payload.interim = Undefined}

\* payloads whose flag keys disagree: is_final against isFinal, isFinal
\* against final, interim against partial
ConflictingFlags ==
    {Flags(JsFalse, JsTrue, Undefined, Undefined, Undefined),
     Flags(Undefined, JsTrue, JsFalse, Undefined, Undefined),
     Flags(Undefined, Undefined, Undefined, JsTrue, JsFalse)}

ConflictEvents ==
    {Event(ObjectPayload(<<"a">>, "user", Undefined, Undefined, f), "alice",
           Undefined) : f \in ConflictingFlags}

DecideInbound == Inbound(DecideSteps \cup ConflictEvents, MaxDecide)

DecidePlaybackEnds == PlaybackEnds(MaxDecide)

NextDecide ==
    \/ DecideInbound
    \/ DecidePlaybackEnds

InitDecide == InitConnected(MonOff)

\* the reconciler before every kind of last entry: chat messages of every
\* text, role, sender and mark, status entries and system entries
SpecDecide == InitDecide /\ [][NextDecide]_vars

-----------------------------------------------------------------------------
(* Server specifications *)

\* longest response streamed in SpecGen
MaxGenStream == 2

\* longest response streamed in SpecSeg
MaxStream == 4

\* exchanges one room saves in SpecHist
MaxSaves == 16

\* transcripts: empty, whitespace only, and a word
GenTranscripts == {<<>>, <<" ">>, <<"h", "i">>}

\* chunks of the model's stream in SpecGen: a sentence, and a word
GenChunks == {<<"a", ".">>, <<"b">>}

\* One with-retry call of either variant, with every outcome of every
\* attempt and of every onSentence.
NextGen ==
    \/ \E variant \in {"streaming", "plain"}, transcript \in GenTranscripts,
          roomName \in {Undefined, "r1"} :
            GenerateStart(variant, transcript, roomName) /\ UNCHANGED agent
    \/ DelayEnds /\ UNCHANGED agent
    \/ \E index \in FallbackIndices, cbOk \in BOOLEAN :
            StreamingBlank(index, cbOk) /\ UNCHANGED agent
    \/ StreamingOpen /\ UNCHANGED agent
    \/ \E chunk \in GenChunks, throwAt \in 0..MaxGenStream,
          retryable \in BOOLEAN :
            /\ StreamChunk(chunk, throwAt, retryable)
            /\ Len(fullResponse') <= MaxGenStream
            /\ UNCHANGED agent
    \/ \E retryable \in BOOLEAN :
            StreamFails(retryable) /\ UNCHANGED agent
    \/ \E cbOk \in BOOLEAN, retryable \in BOOLEAN :
            StreamEnds(cbOk, retryable) /\ UNCHANGED agent
    \/ \E index \in FallbackIndices :
            PlainBlank(index) /\ UNCHANGED agent
    \/ PlainOpen /\ UNCHANGED agent
    \/ \E text \in GenChunks :
            GenerateReturns(text) /\ UNCHANGED agent
    \/ \E retryable \in BOOLEAN :
            GenerateFails(retryable) /\ UNCHANGED agent
    \/ \E index \in FallbackIndices, cbOk \in BOOLEAN :
            Fallback(index, cbOk) /\ UNCHANGED agent

SpecGen == Init /\ [][NextGen]_vars

\* characters of the streams of SpecSeg
StreamChars == {"a", ".", "?", " "}

\* the texts of 1 to n characters
ChunksUpTo(n) == UNION {[1..k -> StreamChars] : k \in 1..n}

\* "Hi there. How are you?", streamed as "Hi ", "there. How ", "are you?"
ExampleText ==
    <<"H", "i", " ", "t", "h", "e", "r", "e", ".", " ", "H", "o", "w", " ",
      "a", "r", "e", " ", "y", "o", "u", "?">>

ExampleEnds == <<3, 14, 22>>

\* the chunk of the example that comes next, if the stream so far is the
\* example's
ExampleNext ==
    {SubSeq(ExampleText, Len(fullResponse) + 1, ExampleEnds[k]) :
        k \in {j \in 1..Len(ExampleEnds) :
                 /\ fullResponse =
                        SubSeq(ExampleText, 1,
                               IF j = 1 THEN 0 ELSE ExampleEnds[j - 1])
                 /\ obs.chunkEnds = {ExampleEnds[i] : i \in 1..(j - 1)}}}

\* One streaming attempt whose stream is any text of up to MaxStream
\* characters in any chunking, or the example.
NextSeg ==
    \/ GenerateStart("streaming", <<"h", "i">>, Undefined) /\ UNCHANGED agent
    \/ StreamingOpen /\ UNCHANGED agent
    \/ \E chunk \in ChunksUpTo(MaxStream - Len(fullResponse)) \cup ExampleNext :
            StreamChunk(chunk, 0, TRUE) /\ UNCHANGED agent
    \/ StreamEnds(TRUE, TRUE) /\ UNCHANGED agent

SpecSeg == Init /\ [][NextSeg]_vars

\* number of the last exchange a room has saved
Ordinal(roomName) ==
    IF history[roomName] = <<>> THEN 0
    ELSE Len(history[roomName][Len(history[roomName])].content)

\* the n-th transcript of a room: n characters
NthText(n) == [i \in 1..n |-> "x"]

\* Calls of generateResponseWithRetry for two rooms, one after the other,
\* each answered by the model.
NextHist ==
    \/ \E roomName \in Rooms :
            /\ Ordinal(roomName) < MaxSaves
            /\ GenerateStart("plain", NthText(Ordinal(roomName) + 1), roomName)
            /\ UNCHANGED agent
    \/ PlainOpen /\ UNCHANGED agent
    \/ GenerateReturns(call.transcript) /\ UNCHANGED agent
    \/ CallReturns /\ UNCHANGED agent

SpecHist == Init /\ [][NextHist]_vars

\* a generation of another room, running beside the call that is followed,
\* succeeds: all it does to the state of the service is to save its exchange
SavedBeside(roomName, transcript, response) ==
    /\ history' = SaveExchange(history, roomName, transcript, response)
    /\ UNCHANGED <<genVars, clientVars, mon>>

\* Generations of two rooms and the agents of both rooms stopping, in every
\* order: the calls of SpecHist, generations of the other room returning
\* while a call is running, and clearHistory at any moment.
NextRooms ==
    \/ NextHist
    \/ \E roomName \in Rooms \ {call.roomName} :
            /\ pc # "idle"
            /\ Ordinal(roomName) < MaxSaves
            /\ SavedBeside(roomName, NthText(Ordinal(roomName) + 1),
                           NthText(Ordinal(roomName) + 1))
            /\ UNCHANGED agent
    \/ \E roomName \in Rooms :
            ClearHistory(roomName) /\ UNCHANGED agent

SpecRooms == Init /\ [][NextRooms]_vars

\* longest response streamed in SpecAwait
MaxAwaitStream == 6

\* exchanges the room saves in SpecAwait
MaxAwaitSaves == 2

\* chunks of SpecAwait: one sentence, two sentences, an unterminated word
AwaitChunks == {<<"a", ".">>, <<"a", ".", " ", "b", ".">>, <<"c">>}

\* Calls whose model and callback do not fail, the streaming attempt step by
\* step between its awaits.
NextAwait ==
    \/ \E variant \in {"streaming", "plain"}, roomName \in {Undefined, AgentRoom} :
            /\ GenerateStart(variant, <<"h", "i">>, roomName)
            /\ Len(history[AgentRoom]) < 2 * MaxAwaitSaves
            /\ UNCHANGED agent
    \/ StreamingOpen /\ UNCHANGED agent
    \/ \E chunk \in AwaitChunks :
            /\ ChunkArrives(chunk)
            /\ Len(fullResponse') <= MaxAwaitStream
            /\ UNCHANGED agent
    \/ SentenceHandedOver /\ UNCHANGED agent
    \/ CallbackCompletes /\ UNCHANGED agent
    \/ StreamDrained /\ UNCHANGED agent
    \/ StreamReturns /\ UNCHANGED agent
    \/ PlainOpen /\ UNCHANGED agent
    \/ \E text \in AwaitChunks :
            GenerateReturns(text) /\ UNCHANGED agent
    \/ CallReturns /\ UNCHANGED agent

SpecAwait == Init /\ [][NextAwait]_vars

\* exchanges the agent's room saves in SpecAgent
MaxAgentSaves == 1

\* One voice agent from its construction: start, final transcripts (one
\* generation at a time), the generation with every outcome of the model and
\* of the callback, and stop at any moment.
NextAgent ==
    \/ AgentStart
    \/ AgentConnected
    \/ AgentStop
    \/ \E ready \in BOOLEAN :
            /\ Len(history[AgentRoom]) < 2 * MaxAgentSaves
            /\ AgentFinalTranscript(<<"h", "i">>, ready)
    \/ StreamingOpen /\ UNCHANGED agent
    \/ \E chunk \in GenChunks, throwAt \in 0..MaxGenStream,
          retryable \in BOOLEAN, ready \in BOOLEAN :
            /\ StreamChunk(chunk, throwAt, retryable)
            /\ Len(fullResponse') <= MaxGenStream
            /\ AgentCallbacks(throwAt # 0, ready)
    \/ \E retryable \in BOOLEAN :
            StreamFails(retryable) /\ UNCHANGED agent
    \/ \E cbOk \in BOOLEAN, retryable \in BOOLEAN, ready \in BOOLEAN :
            StreamEnds(cbOk, retryable) /\ AgentCallbacks(~cbOk, ready)
    \/ DelayEnds /\ UNCHANGED agent
    \/ \E index \in FallbackIndices, cbOk \in BOOLEAN, ready \in BOOLEAN :
            Fallback(index, cbOk) /\ AgentCallbacks(~cbOk, ready)
    \/ \E ready \in BOOLEAN : AgentCallReturns(ready)

SpecAgent == Init /\ [][NextAgent]_vars

\* generations beside the one followed in SpecOverlap
MaxBeside == 1

\* The voice agent with the STT callback at any moment: final transcripts
\* also arrive while a generation is running.
NextOverlap ==
    \/ NextAgent
    \/ \E ready \in BOOLEAN :
            /\ agent.beside < MaxBeside
            /\ AgentFinalTranscriptBeside(ready)
    \/ \E succeeded \in BOOLEAN, ready \in BOOLEAN :
            /\ Len(history[AgentRoom]) < 2 * MaxAgentSaves
            /\ AgentBesideReturns(<<"h", "i">>, <<"a", ".">>, succeeded, ready)

SpecOverlap == Init /\ [][NextOverlap]_vars

\* exchanges the room saves in SpecSameRoom
MaxSameRoomSaves == 12

\* the n-th transcript of a generation beside the call that is followed
NthTextBeside(n) == [i \in 1..n |-> "y"]

\* Generations of one room that overlap: the calls of SpecHist for the
\* agent's room, and generations of the same room that began before the
\* followed call returned and save their exchange while it is running.
NextSameRoom ==
    \/ /\ Ordinal(AgentRoom) < MaxSameRoomSaves
       /\ GenerateStart("plain", NthText(Ordinal(AgentRoom) + 1), AgentRoom)
       /\ UNCHANGED agent
    \/ PlainOpen /\ UNCHANGED agent
    \/ GenerateReturns(call.transcript) /\ UNCHANGED agent
    \/ CallReturns /\ UNCHANGED agent
    \/ /\ pc \in {"attempt", "generate"}
       /\ Ordinal(AgentRoom) < MaxSameRoomSaves
       /\ SavedBeside(AgentRoom, NthTextBeside(Ordinal(AgentRoom) + 1),
                      NthTextBeside(Ordinal(AgentRoom) + 1))
       /\ UNCHANGED agent

SpecSameRoom == Init /\ [][NextSameRoom]_vars

-----------------------------------------------------------------------------
(* Transcript reconciliation: C1 - C4 *)

\* after is before with one entry appended, or before with at most its last
\* entry changed
AppendOnlyExceptLast(before, after) ==
    /\ Len(after) \in {Len(before), Len(before) + 1}
    /\ \A i \in 1..(Len(before) - 1) : after[i] = before[i]
    /\ Len(after) = Len(before) + 1 => SubSeq(after, 1, Len(before)) = before

\* C1: whatever the transcript inbound events have built, the next inbound
\* event handled by handleDataReceived appends exactly one entry, or changes
\* at most the entry at the last index, or leaves the transcript alone: the
\* entries at earlier indices stay as they are and the length never decreases.
C1_AppendOnlyExceptLast ==
    Listening =>
        \A e \in InboundEvents :
            AppendOnlyExceptLast(
                messages,
                DataReceived(e.payload, e.participant, e.topic).messages)

\* a second entry has been replaced (one identifier was drawn and dropped)
\* behind a first entry that stayed
C1_Witness ==
    /\ Len(messages) = 2
    /\ messages[1].id = 0
    /\ messages[2].id = 2
    /\ messages[1].topic = "chat"
    /\ messages[2].topic = "chat"

\* C2: from the empty transcript, interim chat messages of one sender with
\* growing texts followed by a final message of that sender leave exactly one
\* entry, with the final message's text and status sent.
C2_ContinuationMerge ==
    mon.phase = "final" =>
        /\ Len(messages) = 1
        /\ messages[1].text = mon.text
        /\ messages[1].status = "sent"

\* two interims and a final, each text longer than the one before
C2_Witness ==
    /\ mon.phase = "final"
    /\ mon.interims = 2
    /\ mon.strict
    /\ mon.text = <<"a", "b", "c">>
    /\ Len(messages) = 1

\* C3: after an interim chat message with text t, the same message delivered
\* final twice leaves exactly one entry, with status sent.
C3_IdempotentFinalization ==
    mon.phase = "refinal" =>
        /\ Len(messages) = 1
        /\ messages[1].status = "sent"

\* C4: an inbound chat message whose sender id is present and differs from the
\* present sender id of the last entry is appended as a new entry and leaves
\* every existing entry as it is, whatever its flags and texts.
C4_NonContinuation ==
    Listening /\ Len(messages) > 0 =>
        \A e \in InboundEvents :
            LET data == ParseDataChannelMessage(e.payload)
                lastMessage == messages[Len(messages)]
                after == DataReceived(e.payload, e.participant, e.topic).messages
            IN  (/\ data.ok
                 /\ MessageTopic(data, e.topic) = "chat"
                 /\ Truthy(SenderId(data, e.participant))
                 /\ Truthy(lastMessage.senderId)
                 /\ SenderId(data, e.participant) # lastMessage.senderId)
                => /\ Len(after) = Len(messages) + 1
                   /\ SubSeq(after, 1, Len(messages)) = messages
                   /\ after[Len(after)].text = data.message
                   /\ after[Len(after)].senderId = SenderId(data, e.participant)

\* an interim message of the same role with a text extending the last entry's
\* was appended behind an interim entry of another sender
C4_Witness ==
    /\ Len(messages) = 2
    /\ messages[1].id = 0
    /\ messages[2].id = 1
    /\ messages[1].senderId = "alice"
    /\ messages[2].senderId = "user"
    /\ messages[1].role = messages[2].role
    /\ messages[1].status = "streaming"
    /\ messages[2].status = "streaming"
    /\ messages[1].text = <<"a">>
    /\ messages[2].text = <<"a", "b">>

-----------------------------------------------------------------------------
(* Status routing: C5 *)

\* C5: an inbound message whose topic is "status" appends exactly one system
\* entry with text "Status: <message>", leaves every entry of the transcript
\* as it is, and leaves the loading indicator as it is.
C5_StatusRouting ==
    Listening =>
        \A e \in PanelEvents :
            LET data == ParseDataChannelMessage(e.payload)
                after == DataReceived(e.payload, e.participant, e.topic)
            IN  (data.ok /\ MessageTopic(data, e.topic) = "status")
                => /\ Len(after.messages) = Len(messages) + 1
                   /\ SubSeq(after.messages, 1, Len(messages)) = messages
                   /\ after.messages[Len(after.messages)].role = "system"
                   /\ after.messages[Len(after.messages)].text =
                          <<"Status: ">> \o data.message
                   /\ after.messages[Len(after.messages)].topic # "chat"
                   /\ after.isAssistantLoading = isAssistantLoading

\* a status entry was appended behind an acknowledged message while the
\* loading indicator was on
C5_Witness ==
    /\ Len(messages) = 2
    /\ messages[1].role = "user"
    /\ messages[1].status = "sent"
    /\ messages[2].role = "system"
    /\ messages[2].text = <<"Status: ", "a">>
    /\ isAssistantLoading

-----------------------------------------------------------------------------
(* Generation with retry: C6 - C8 *)

\* the lines of FALLBACK_RESPONSES
FallbackLines == {FALLBACK_RESPONSES[i] : i \in 1..Len(FALLBACK_RESPONSES)}

\* C6: the with-retry entry points never propagate an error to their caller:
\* whatever the outcomes of the attempts, a call that is over has resolved
\* with a text and has not rejected.
C6_NeverRejects ==
    pc = "done" => obs.outcome.kind = "resolved"

\* C7: when every attempt of a call failed with an error of the model that is
\* not a rate limit, the call returns a non-empty line of the fallback list;
\* the streaming variant delivers exactly one text to the callback after the
\* attempts are exhausted, and it is the returned line.
C7_FallbackGuarantee ==
    LET n == Len(obs.trace) IN
    (/\ pc = "done"
     /\ n > 0
     /\ \A i \in 1..n : obs.trace[i] = "retryable")
    => /\ obs.outcome.kind = "resolved"
       /\ obs.outcome.text \in FallbackLines
       /\ obs.outcome.text # <<>>
       /\ call.variant = "streaming"
          => /\ Len(obs.delivered) = obs.exhausted + 1
             /\ obs.delivered[Len(obs.delivered)] = obs.outcome.text

-----------------------------------------------------------------------------
(* Sentence segmentation: C9 *)

\* positions of the terminators of text that are followed by whitespace or
\* were the end of the accumulated text when their chunk arrived
CutPoints(text, ends) ==
    {i \in 1..Len(text) :
        /\ text[i] \in Terminators
        /\ \/ i \in ends
           \/ i < Len(text) /\ text[i + 1] \in Whitespace}

\* the trimmed pieces of text between consecutive cut points behind from
RECURSIVE PiecesFrom(_, _, _)
PiecesFrom(text, cuts, from) ==
    LET ahead == {c \in cuts : c > from} IN
    IF ahead = {} THEN <<>>
    ELSE LET c == CHOOSE x \in ahead : \A y \in ahead : x <= y
         IN  <<Trim(SubSeq(text, from + 1, c))>> \o PiecesFrom(text, cuts, c)

\* the trimmed text behind the last cut point
RestBehind(text, cuts) ==
    LET last == IF cuts = {} THEN 0
                ELSE CHOOSE x \in cuts : \A y \in cuts : y <= x
    IN  Trim(SubSeq(text, last + 1, Len(text)))

-----------------------------------------------------------------------------
(* History bound: C10 *)

\* one append to stored: below the cap the message is added at the end; at
\* the cap the result is the most recent cap/2 messages, in their order
AppendKeepsBound(stored, role) ==
    LET message == [role |-> role, content |-> NthText(1)]
        pushed == Append(stored, message)
        after == AddToHistory(stored, role, message.content)
        half == MaxHistoryMessages \div 2
    IN  /\ Len(after) <= MaxHistoryMessages
        /\ IF Len(stored) < MaxHistoryMessages
           THEN after = pushed
           ELSE /\ Len(after) = half
                /\ after = SubSeq(pushed, Len(pushed) - half + 1, Len(pushed))

\* C10: after any sequence of appends the stored messages of a room never
\* exceed the cap of 20; the append that would exceed it leaves exactly the
\* 10 most recent messages, oldest dropped first, order kept.
C10_HistoryBound ==
    \A roomName \in Rooms :
        /\ Len(history[roomName]) <= MaxHistoryMessages
        /\ \A role \in {"user", "assistant"} :
              /\ AppendKeepsBound(history[roomName], role)
              /\ \A next \in {"user", "assistant"} :
                    AppendKeepsBound(
                        AddToHistory(history[roomName], role, NthText(1)), next)

\* the eleventh exchange of a room pruned its history: the answer of the
\* sixth exchange is now the oldest message
C10_Witness ==
    \E roomName \in Rooms :
        /\ Len(history[roomName]) = 11
        /\ history[roomName][1].role = "assistant"
        /\ Len(history[roomName][1].content) = 6
        /\ Len(history[roomName][11].content) = 11

-----------------------------------------------------------------------------
(* Outbound send pipeline: C11 - C13 *)

\* C11: when the publish of a sent message is acknowledged, the transcript
\* entry that carries the message's id has status sent and the loading
\* indicator is on, whatever was handled between the send and the
\* acknowledgement.
C11_AckMarksSent ==
    [][\A messageId \in pending :
          PublishResolved(messageId)
          => /\ isAssistantLoading'
             /\ \E i \in 1..Len(messages') :
                   /\ messages'[i].id = messageId
                   /\ messages'[i].status = "sent"]_vars

\* the transcript after is the transcript before with the status of the
\* entries of that id set, and nothing else changed
OnlyStatusSet(before, after, messageId, status) ==
    /\ Len(after) = Len(before)
    /\ \A i \in 1..Len(before) :
          after[i] = IF before[i].id = messageId
                     THEN [before[i] EXCEPT !.status = status]
                     ELSE before[i]

\* C12: while the client has no room, a send marks its entry failed at once
\* (a fresh send appends a new failed entry, a retry marks the existing
\* entry), sets the connectivity error and starts no publish.
C12_NotConnectedFails ==
    ~(clientRef = "client" /\ roomUp)
    => \A text \in SendTexts, encodeThrows \in BOOLEAN :
         /\ LET after == SendMessage(text, NoId, SessionIdentity, encodeThrows)
                n == Len(messages)
            IN  /\ Len(after.messages) = n + 1
                /\ SubSeq(after.messages, 1, n) = messages
                /\ after.messages[n + 1].status = "failed"
                /\ after.messages[n + 1].text = text
                /\ \A i \in 1..n : messages[i].id # after.messages[n + 1].id
                /\ after.error = "not connected"
                /\ after.pending = pending
                /\ after.payload = NoPayload
         /\ \A i \in 1..Len(messages) :
               messages[i].status = "failed"
               => LET after == SendMessage(messages[i].text, messages[i].id,
                                           SessionIdentity, encodeThrows)
                  IN  /\ OnlyStatusSet(messages, after.messages,
                                       messages[i].id, "failed")
                      /\ after.error = "not connected"
                      /\ after.pending = pending
                      /\ after.payload = NoPayload

\* a failed entry was retried after the disconnect
C12_Witness ==
    /\ connectionStatus = "idle"
    /\ clientRef = "null"
    /\ error = "not connected"
    /\ pending = {}
    /\ \E i \in 1..Len(messages) :
          messages[i].role = "user" /\ messages[i].status = "failed"

\* ids a retry can be asked for: those of the transcript and one of no entry
RetryRequests == {messages[i].id : i \in 1..Len(messages)} \cup {GenerateId}

\* C13: a retry asked for an entry that is not failed, or for an id of no
\* entry, changes nothing and publishes nothing; a retry of a failed entry
\* creates no entry and changes no id, and when the client has a room and the
\* payload is encoded it sets that entry to sending and publishes the entry's
\* text again under the entry's id.
C13_RetryOnlyFromFailed ==
    \A messageId \in RetryRequests, encodeThrows \in BOOLEAN :
        LET after == RetryMessage(messageId, SessionIdentity, encodeThrows)
            at == FindMessage(messageId)
        IN  IF at = 0 \/ messages[at].status # "failed"
            THEN after = NothingSent
            ELSE /\ Len(after.messages) = Len(messages)
                 /\ \A i \in 1..Len(messages) :
                       /\ after.messages[i].id = messages[i].id
                       /\ after.messages[i].text = messages[i].text
                       /\ i # at => after.messages[i] = messages[i]
                 /\ (clientRef = "client" /\ roomUp /\ ~encodeThrows)
                    => /\ after.messages[at].status = "sending"
                       /\ after.payload = ChatPayload(messages[at].text)
                       /\ after.pending = pending \cup {messageId}

\* the only entry failed and has been retried on a connected client
C13_Witness ==
    /\ Len(messages) = 1
    /\ messages[1].status = "sending"
    /\ messages[1].id \in pending
    /\ error = "send failed"

-----------------------------------------------------------------------------
(* Connect and disconnect: C14 *)

\* C14: the guard is set exactly while a connect or disconnect action awaits
\* one of its operations, so at most one is in progress; a connect or
\* disconnect call made meanwhile changes no connection, microphone, error
\* or transcript state.
C14_InFlightGuard ==
    [][/\ actionInFlight <=> connPc # "idle"
       /\ actionInFlight' <=> connPc' # "idle"
       /\ actionInFlight
          => (((\E wa \in BOOLEAN : Connect(wa)) \/ HandleDisconnect)
              => UNCHANGED clientVars)]_vars

\* a disconnect of a connected client awaits client.disconnect()
C14_Witness ==
    /\ actionInFlight
    /\ connPc = "disconnect"
    /\ connectionStatus = "connected"

-----------------------------------------------------------------------------
(* Voice agent: C15, C16 *)

\* C15: once stop() has run for a room, the stored history of the room is
\* empty and stays empty, also when a generation for the room was under way
\* at the stop.
C15_HistoryGoneAfterStop ==
    agent.stopped => history[AgentRoom] = <<>>

\* C16: after stop() no chat message and no speech request of the agent
\* reaches the client, whatever a generation still under way delivers, its
\* final message and the fallback of the error path included.
C16_SilentAfterStop ==
    ~agent.late

\* a generation that was under way at the stop has delivered a text and is
\* over; the agent dropped what it would have sent
C16_Witness ==
    /\ agent.stopped
    /\ agent.muted
    /\ pc = "done"
    /\ obs.delivered # <<>>

-----------------------------------------------------------------------------
(* Explicit flags: C17 *)

\* C17: a chat message marked final (isFinal true or interim false, and no
\* interim mark) is never merged as an interim update, whatever its text: it
\* is appended or it replaces a streaming last entry, with status sent; a
\* chat message marked interim from the sender and topic of the last entry
\* always replaces the last entry, with status streaming, whatever its text.
C17_ExplicitFlagOverrides ==
    \A e \in MergeEvents \cup ChatEvents :
        LET data == ParseDataChannelMessage(e.payload)
            incoming == IncomingMessage(data, e.participant, e.topic)
            after == DataReceived(e.payload, e.participant, e.topic).messages
            n == Len(messages)
        IN  n > 0
            => /\ (data.isFinal = JsTrue \/ data.interim = JsFalse)
                  /\ ~(data.interim = JsTrue \/ data.isFinal = JsFalse)
                  => /\ after[Len(after)].status = "sent"
                     /\ after[Len(after)].text = data.message
                     /\ \/ after = Append(messages, after[Len(after)])
                        \/ /\ Len(after) = n
                           /\ messages[n].status = "streaming"
                           /\ SubSeq(after, 1, n - 1) = SubSeq(messages, 1, n - 1)
               /\ (data.interim = JsTrue \/ data.isFinal = JsFalse)
                  /\ SameSender(messages[n], incoming)
                  /\ SameTopic(messages[n], incoming)
                  => /\ Len(after) = n
                     /\ SubSeq(after, 1, n - 1) = SubSeq(messages, 1, n - 1)
                     /\ after[n].status = "streaming"
                     /\ after[n].text = data.message

\* a message marked final whose text continues the finished last entry of
\* its sender was appended, not merged
C17_Witness ==
    /\ Len(messages) = 2
    /\ \A i \in 1..2 :
          /\ messages[i].role = "user"
          /\ messages[i].senderId = "alice"
          /\ messages[i].status = "sent"
    /\ messages[1].text = <<"a">>
    /\ messages[2].text = <<"a", "b">>

-----------------------------------------------------------------------------
(* Sentence callbacks and history of one generation: C18, C20 *)

\* C18: the calls of the sentence callback run one at a time and in arrival
\* order: a call is made, and a chunk is consumed, only when the call before
\* has completed; the sentences are handed over in the order they were cut;
\* the generation returns only when every call has completed.
C18_CallbacksSequential ==
    [][/\ obs'.running <= 1
       /\ Len(obs'.delivered) > Len(obs.delivered)
          => /\ obs.running = 0
             /\ obs'.delivered = Append(obs.delivered, Head(obs.queue))
       /\ fullResponse' # fullResponse
          => obs.running = 0 /\ obs.queue = <<>>
       /\ pc' = "done" => obs'.running = 0 /\ obs'.queue = <<>>]_vars

\* a chunk of two sentences: the first call of the callback has completed,
\* the second is running
C18_Witness ==
    /\ pc = "stream"
    /\ obs.running = 1
    /\ Len(obs.delivered) = 2
    /\ obs.queue = <<>>
    /\ Cardinality(obs.chunkEnds) = 1

\* the transcript of the user and the response, as two entries of a history
Exchange(transcript, response) ==
    <<[role |-> "user", content |-> transcript],
      [role |-> "assistant", content |-> response]>>

\* C20: the step in which a generation returns its response appends, with a
\* room id, the transcript of the user and then the whole response to the
\* history of that room and touches no other room, and every call of the
\* sentence callback has completed by then; without a room id it leaves every
\* history as it was. No other step of a generation changes a history.
C20_ExchangeSaved ==
    [][LET returns == pc # "done" /\ pc' = "done"
           room == call.roomName
           response == obs'.outcome.text
       IN
       /\ returns /\ Truthy(room)
          => LET old == history[room]
                 new == history'[room]
             IN
             /\ Len(new) >= 2
             /\ SubSeq(new, Len(new) - 1, Len(new))
                    = Exchange(call.transcript, response)
             /\ Len(old) + 2 <= MaxHistoryMessages
                => new = old \o Exchange(call.transcript, response)
             /\ \A other \in Rooms \ {room} : history'[other] = history[other]
             /\ obs.running = 0 /\ obs.queue = <<>>
             /\ obs'.delivered = obs.delivered
             /\ call.variant = "streaming" => response = fullResponse
       /\ returns /\ ~Truthy(room) => history' = history
       /\ ~returns => history' = history]_vars

\* the second exchange of the room, its response streamed as two sentences
C20_Witness ==
    /\ pc = "done"
    /\ call.roomName = AgentRoom
    /\ obs.delivered = <<<<"a", ".">>, <<"b", ".">>>>
    /\ Len(history[AgentRoom]) = 4
    /\ SubSeq(history[AgentRoom], 3, 4)
           = Exchange(<<"h", "i">>, <<"a", ".", " ", "b", ".">>)

-----------------------------------------------------------------------------
(* Retry loop: C19 *)

\* C19: a with-retry call invokes the model at most DefaultMaxRetries + 1
\* times. A retryable failure of the model in attempt i, while attempts
\* remain, is followed by a wait of DelayBase * i and then by attempt i + 1.
\* A failure that is not retryable is the last attempt of the call: no wait
\* follows it and the call is at its fallback.
C19_BoundedRetry ==
    /\ obs.modelCalls <= DefaultMaxRetries + 1
    /\ Len(obs.trace) <= DefaultMaxRetries + 1
    /\ \A i \in 1..Len(obs.trace) :
          /\ obs.trace[i] = "retryable" /\ i <= DefaultMaxRetries
             => /\ Len(obs.delays) >= i
                /\ obs.delays[i] = DelayBase * i
                /\ \/ pc = "delay" /\ attempt = i - 1 /\ Len(obs.trace) = i
                   \/ attempt >= i
          /\ obs.trace[i] = "retryable" /\ i = DefaultMaxRetries + 1
             => /\ Len(obs.delays) = DefaultMaxRetries
                /\ pc \in {"fallback", "done"}
          /\ obs.trace[i] = "ratelimit"
             => /\ i = Len(obs.trace)
                /\ attempt = i - 1
                /\ Len(obs.delays) = i - 1
                /\ pc \in {"fallback", "done"}

\* two retryable failures, each waited for, then a rate-limit failure
C19_Witness ==
    /\ obs.trace = <<"retryable", "retryable", "ratelimit">>
    /\ obs.delays = <<DelayBase, 2 * DelayBase>>
    /\ obs.modelCalls = DefaultMaxRetries + 1
    /\ pc = "fallback"

-----------------------------------------------------------------------------
(* Send errors: C21 *)

\* C21: a publish that fails leaves the entry of its message in the
\* transcript with status failed, whether the promise of publishData rejects
\* or the encoding throws, and an entry has status sending only while its
\* publish has not settled.
C21_SendFailureShown ==
    [][/\ \A messageId \in pending :
             PublishRejected(messageId)
             => \E i \in 1..Len(messages') :
                   /\ messages'[i].id = messageId
                   /\ messages'[i].status = "failed"
       /\ \A i \in 1..Len(messages') :
             messages'[i].status = "sending" => messages'[i].id \in pending']_vars

\* the part of C21 that holds: an entry has status sending only while its
\* publish has not settled, and a failure of the encoding shows at once
SendingOnlyWhilePending ==
    /\ \A i \in 1..Len(messages) :
          messages[i].status = "sending" => messages[i].id \in pending
    /\ \A text \in SendTexts, identity \in Identities :
          HasRoom
          => LET after == SendMessage(text, NoId, identity, TRUE).messages IN
             /\ Len(after) = Len(messages) + 1
             /\ after[Len(after)].status = "failed"
             /\ after[Len(after)].text = text

-----------------------------------------------------------------------------
(* Generations of one room: C22 *)

\* C22: at most one generation of the room of the agent is in flight.
C22_OneGenerationPerRoom == GenerationsInFlight <= 1

\* a final transcript arrived while a generation was streaming
TranscriptWhileStreaming == pc = "stream" /\ agent.beside = 1

-----------------------------------------------------------------------------
(* Rooms of the history store: C23 *)

\* C23: a step changes the history of at most one room; the call that
\* returns changes the history of its own room only, and saving an exchange
\* for a room, pruned or not, leaves the history of every other room as it
\* is.
C23_RoomIsolation ==
    [][LET changed == {r \in Rooms : history'[r] # history[r]} IN
       /\ Cardinality(changed) <= 1
       /\ pc # "done" /\ pc' = "done" => changed \subseteq {call.roomName}
       /\ \A room \in Rooms : \A other \in Rooms \ {room} :
             SaveExchange(history, room, <<"x">>, <<"x">>)[other]
                = history[other]]_vars

\* the call of room r1 is running, r1 has been pruned and r2 is full
C23_Witness ==
    /\ pc = "generate"
    /\ call.roomName = "r1"
    /\ Len(history["r1"]) = MaxHistoryMessages \div 2 + 1
    /\ Len(history["r2"]) = MaxHistoryMessages

-----------------------------------------------------------------------------
(* The two variants of the call with retry: C24 *)

\* the waits after the first k attempts
WaitsAfter(k) == [i \in 1..k |-> DelayBase * i]

\* an attempt is running
AttemptRunning == pc \in {"attempt", "stream", "generate"}

\* The retry and fallback contract as a function of the outcomes of the
\* attempts so far, the same for both variants: every attempt before the last
\* failed and was retried; a success ends the call with a text; a failure
\* that is retryable, with attempts left, is waited for and followed by the
\* next attempt; any other failure ends the attempts, and the call returns a
\* fallback line.  A failure of the callback counts as a failure of the
\* attempt, retryable or not.
RetryContractKept ==
    LET n == Len(obs.trace)
        last == obs.trace[n]
        retried == /\ n <= DefaultMaxRetries
                   /\ obs.delays = WaitsAfter(n)
                   /\ \/ pc = "delay" /\ attempt = n - 1
                      \/ AttemptRunning /\ attempt = n
        givenUp == /\ obs.delays = WaitsAfter(n - 1)
                   /\ attempt = n - 1
                   /\ pc \in {"fallback", "done"}
                   /\ pc = "done"
                      => /\ obs.outcome.kind = "resolved"
                         /\ obs.outcome.text \in FallbackLines
    IN
    pc # "idle"
    => /\ n = 0 => AttemptRunning /\ attempt = 0 /\ obs.delays = <<>>
       /\ n > 0
          => /\ \A i \in 1..(n - 1) : obs.trace[i] \in {"retryable", "callback"}
             /\ last = "ok"
                => /\ pc = "done"
                   /\ attempt = n - 1
                   /\ obs.delays = WaitsAfter(n - 1)
                   /\ obs.outcome.kind = "resolved"
                   /\ BlankTranscript => obs.outcome.text \in FallbackLines
             /\ last = "retryable"
                => IF n <= DefaultMaxRetries THEN retried ELSE givenUp
             /\ last = "ratelimit" => givenUp
             /\ last = "callback" => retried \/ givenUp

\* C24: both variants of the call with retry keep one retry and fallback
\* contract: driven by the same outcomes of their attempts they make the
\* same attempts, wait the same waits, take the same decisions to retry or
\* to give up, and return the text of the successful attempt or a fallback
\* line.
C24_SameRetryContract == RetryContractKept

\* the contract is kept by both variants in every call whose callback has
\* not thrown
ContractKeptByCallbacksThatReturn == obs.cbThrew \/ RetryContractKept

-----------------------------------------------------------------------------
(* Decisions of the reconciler: C25 - C27 *)

\* what the reducer did with a chat message, read off its result
DecisionTaken(before, after) ==
    IF Len(after) = Len(before) + 1 THEN "append"
    ELSE IF after[Len(after)].status = "streaming" THEN "replace-streaming"
    ELSE "replace-sent"

\* the decision of the algorithm as specified, for a transcript with a last
\* entry
DecisionSpecified(lastMessage, incoming, data) ==
    LET sameSender == SameSender(lastMessage, incoming)
        sameTopic == SameTopic(lastMessage, incoming)
        hasExplicitInterim == data.interim = JsTrue \/ data.isFinal = JsFalse
        hasExplicitFinal == data.interim = JsFalse \/ data.isFinal = JsTrue
        flagless == ~hasExplicitInterim /\ ~hasExplicitFinal
        shouldTreatAsInterim ==
            \/ hasExplicitInterim
            \/ /\ flagless
               /\ incoming.role = "user"
               /\ sameSender
               /\ sameTopic
               /\ IsTextContinuation(lastMessage, data)
    IN
    IF sameSender /\ sameTopic /\ shouldTreatAsInterim
    THEN "replace-streaming"
    ELSE IF /\ sameSender
            /\ sameTopic
            /\ lastMessage.status = "streaming"
            /\ \/ hasExplicitFinal
               \/ flagless /\ data.message = lastMessage.text
    THEN "replace-sent"
    ELSE "append"

NonEmptyPrefixRelation(candidate, lastText) ==
    \/ candidate # <<>> /\ StartsWith(lastText, candidate)
    \/ lastText # <<>> /\ StartsWith(candidate, lastText)

\* C26: a message continues the text of the last entry exactly when one of
\* the two texts is a non-empty prefix of the other; a flagless user message
\* with an empty text does not replace a last entry with a text.
C26_ContinuationIsNonEmptyPrefix ==
    \A e \in DecideEvents :
        LET data == ParseDataChannelMessage(e.payload)
            incoming == IncomingMessage(data, e.participant, e.topic)
            after == DataReceived(e.payload, e.participant, e.topic).messages
            lastMessage == messages[Len(messages)]
        IN
        (Len(messages) > 0 /\ incoming.topic = "chat")
        => /\ IsTextContinuation(lastMessage, data)
                <=> NonEmptyPrefixRelation(data.message, lastMessage.text)
           /\ (/\ ~HasExplicitFlag(data)
               /\ incoming.role = "user"
               /\ data.message = <<>>
               /\ lastMessage.text # <<>>)
              => after = Append(messages, incoming)

\* every assignment of true, false or nothing to the five flag keys
AllFlags ==
    {Flags(a, b, c, d, e) :
        a \in {Undefined, JsTrue, JsFalse}, b \in {Undefined, JsTrue, JsFalse},
        c \in {Undefined, JsTrue, JsFalse}, d \in {Undefined, JsTrue, JsFalse},
        e \in {Undefined, JsTrue, JsFalse}}

\* the value of the first key of the list that holds a boolean
FirstBoolean(values) ==
    LET set == {i \in 1..Len(values) : values[i] # Undefined} IN
    IF set = {} THEN Undefined
    ELSE values[CHOOSE i \in set : \A j \in set : i <= j]

\* C27: the final flag of a payload is the value of the first of the keys
\* isFinal, is_final, final that holds a boolean, and the interim flag the
\* value of the first of interim, partial; these are the values the handler
\* uses: the first entry of a transcript is streaming exactly when they mark
\* the message interim.
C27_FlagPrecedence ==
    \A f \in AllFlags :
        LET payload == ObjectPayload(<<"a">>, "user", Undefined, Undefined, f)
            data == ParseDataChannelMessage(payload)
            isFinal == FirstBoolean(<<f.isFinal, f.is_final, f.final>>)
            interim == FirstBoolean(<<f.interim, f.partial>>)
            after == DataReceived(payload, "alice", Undefined).messages
        IN
        /\ data.isFinal = isFinal
        /\ data.interim = interim
        /\ messages = <<>>
           => after[1].status = IF interim = JsTrue \/ isFinal = JsFalse
                                THEN "streaming" ELSE "sent"

\* what holds of the code: the order of the keys is is_final, isFinal, final
\* and interim, partial
FlagPrecedenceOfTheCode ==
    \A f \in AllFlags :
        LET payload == ObjectPayload(<<"a">>, "user", Undefined, Undefined, f)
            data == ParseDataChannelMessage(payload)
            isFinal == FirstBoolean(<<f.is_final, f.isFinal, f.final>>)
            interim == FirstBoolean(<<f.interim, f.partial>>)
            after == DataReceived(payload, "alice", Undefined).messages
        IN
        /\ data.isFinal = isFinal
        /\ data.interim = interim
        /\ messages = <<>>
           => after[1].status = IF interim = JsTrue \/ isFinal = JsFalse
                                THEN "streaming" ELSE "sent"

\* a payload with is_final false and isFinal true has left a streaming entry
FlagConflictHandled ==
    /\ Len(messages) = 1
    /\ messages[1].senderId = "alice"
    /\ messages[1].role = "user"
    /\ messages[1].status = "streaming"
    /\ messages[1].text = <<"a">>

-----------------------------------------------------------------------------
(* The rest of the stream: C28 *)

\* C28: while the stream runs the callback receives terminated sentences
\* only; when the stream has ended, the text behind the last sentence is
\* handed over once, trimmed and after every sentence, if it holds more than
\* whitespace, and else nothing is handed over; nothing follows.
C28_RemainderOnce ==
    [][LET rest == RestBehind(fullResponse,
                              CutPoints(fullResponse, obs.chunkEnds))
           before == Len(obs.delivered)
       IN
       /\ pc = "stream" /\ pc' = "stream"
          => /\ SubSeq(obs'.delivered, 1, before) = obs.delivered
             /\ \A i \in (before + 1)..Len(obs'.delivered) :
                   LET sentence == obs'.delivered[i] IN
                   /\ sentence # <<>>
                   /\ sentence[Len(sentence)] \in Terminators
       /\ pc = "stream" /\ pc' = "done"
          => /\ obs'.delivered
                    = obs.delivered \o (IF rest = <<>> THEN <<>> ELSE <<rest>>)
             /\ rest # <<>>
                => rest[1] \notin Whitespace /\ rest[Len(rest)] \notin Whitespace
       /\ pc = "done" => obs'.delivered = obs.delivered]_vars

\* a sentence, then a rest with a blank behind it, handed over trimmed
C28_Witness ==
    /\ pc = "done"
    /\ fullResponse = <<".", " ", "a", " ">>
    /\ obs.delivered = << <<".">>, <<"a">> >>

-----------------------------------------------------------------------------
(* What a replacement may touch: C29, C30 *)

\* C29: a chat message that replaces the last entry has the role of the
\* entry it replaces.
C29_ReplaceKeepsRole ==
    \A e \in DecideEvents :
        LET data == ParseDataChannelMessage(e.payload)
            incoming == IncomingMessage(data, e.participant, e.topic)
            after == DataReceived(e.payload, e.participant, e.topic).messages
        IN
        (/\ Len(messages) > 0
         /\ incoming.topic = "chat"
         /\ Len(after) = Len(messages))
        => /\ incoming.role = messages[Len(messages)].role
           /\ after[Len(after)].role = messages[Len(messages)].role

\* C30: a chat message leaves a last entry that is not streaming as it is:
\* the transcript before stays, entry by entry, and the message is appended.
C30_FinalizedEntryKept ==
    \A e \in DecideEvents :
        LET data == ParseDataChannelMessage(e.payload)
            incoming == IncomingMessage(data, e.participant, e.topic)
            after == DataReceived(e.payload, e.participant, e.topic).messages
        IN
        (/\ Len(messages) > 0
         /\ incoming.topic = "chat"
         /\ messages[Len(messages)].status # "streaming")
        => after = Append(messages, incoming)

-----------------------------------------------------------------------------
(* Invariants of the transcript: C31, C32 *)

\* C31: no entry but the last one has status streaming.
C31_OnlyLastStreaming ==
    \A i \in 1..(Len(messages) - 1) : messages[i].status # "streaming"

\* C32: an entry of the transcript keeps its id in every step, and no two
\* entries carry the same id.
C32_IdsStableAndUnique ==
    [][/\ \A i \in 1..Len(messages) :
             i <= Len(messages') => messages'[i].id = messages[i].id
       /\ \A i, j \in 1..Len(messages') :
             messages'[i].id = messages'[j].id => i = j]_vars

\* the half of C32 that holds: no two entries carry the same id
IdsUnique ==
    \A i, j \in 1..Len(messages) : messages[i].id = messages[j].id => i = j

-----------------------------------------------------------------------------
(* The loading indicator and the connection: C33 *)

\* C33: while the connection status is idle, connecting or error the
\* assistant loading indicator is false.
C33_LoadingOnlyWhileConnected ==
    connectionStatus \in {"idle", "connecting", "error"} => ~isAssistantLoading

-----------------------------------------------------------------------------
(* Nothing lost, nothing doubled: C34 *)

\* the texts of a sequence, one behind the other
RECURSIVE Concatenated(_)
Concatenated(texts) ==
    IF texts = <<>> THEN <<>> ELSE Head(texts) \o Concatenated(Tail(texts))

\* a text without its whitespace characters
WithoutWhitespace(text) == SelectSeq(text, LAMBDA c : c \notin Whitespace)

\* C34: when a streaming attempt has succeeded, the texts handed to the
\* callback, concatenated and with all whitespace removed, are the full
\* response with all whitespace removed, whatever the chunking was.
C34_NothingLostOrDoubled ==
    (pc = "done" /\ call.variant = "streaming")
        => WithoutWhitespace(Concatenated(obs.delivered))
               = WithoutWhitespace(fullResponse)

\* three chunks, a sentence cut by a chunk border and a rest behind it
C34_Witness ==
    /\ pc = "done"
    /\ fullResponse = <<"a", ".", " ", "a">>
    /\ obs.chunkEnds = {1, 3, 4}
    /\ obs.delivered = << <<"a", ".">>, <<"a">> >>

-----------------------------------------------------------------------------
(* What the callback has received when the call returns: C35, C36 *)

\* the sentences of a whole text: its terminated sentences and its trimmed rest
SentencesOf(text) ==
    LET whole == ExtractCompleteSentences(text)
        rest == Trim(IF Len(whole.extracted) > 0 THEN whole.remaining ELSE text)
    IN  whole.extracted \o (IF rest = <<>> THEN <<>> ELSE <<rest>>)

\* C35: when a streaming call with retry has returned a text, the callback
\* has received the sentences of that text and nothing else.
C35_OnlyTheReturnedResponse ==
    (pc = "done" /\ call.variant = "streaming" /\ obs.outcome.kind = "resolved")
        => obs.delivered = SentencesOf(obs.outcome.text)

\* the same for calls in which the callback never threw
OnlyTheReturnedResponseIfNoThrow ==
    (/\ pc = "done" /\ call.variant = "streaming"
     /\ obs.outcome.kind = "resolved" /\ ~obs.cbThrew)
        => obs.delivered = SentencesOf(obs.outcome.text)

\* the same for calls whose first attempt succeeded
ReturnedResponseOfFirstAttempt ==
    (/\ pc = "done" /\ call.variant = "streaming"
     /\ obs.outcome.kind = "resolved" /\ obs.trace = <<"ok">>)
        => obs.delivered = SentencesOf(obs.outcome.text)


\* C36: once the sentence callback has thrown in a call, the model is not
\* invoked again in that call.
C36_NoModelCallAfterCallbackThrow ==
    [][(obs.cbThrew /\ pc # "idle") => obs'.modelCalls <= obs.modelCalls]_vars

-----------------------------------------------------------------------------
(* The history as a dialogue: C37 - C39 *)

\* C37: with the generations of a room run one at a time, the history of the
\* room is empty or begins with a user message, and the roles of adjacent
\* messages differ; so too after an append has pruned it.
C37_WellFormedDialogue ==
    \A roomName \in Rooms :
        LET stored == history[roomName] IN
        /\ stored # <<>> => stored[1].role = "user"
        /\ \A i \in 1..(Len(stored) - 1) : stored[i].role # stored[i + 1].role

\* the half of C37 that holds: the roles of adjacent messages differ and the
\* last message is the assistant's
RolesAlternate ==
    \A roomName \in Rooms :
        LET stored == history[roomName] IN
        /\ stored # <<>> => stored[Len(stored)].role = "assistant"
        /\ \A i \in 1..(Len(stored) - 1) : stored[i].role # stored[i + 1].role


\* C38: when generations of one room overlap, the transcript and the
\* response each of them has recorded stand next to each other in the
\* history, the transcript first: a user message is followed by the response
\* of its generation, and a response that is not the oldest message follows
\* the transcript of its generation.  (In SpecSameRoom the response of a
\* generation repeats its transcript.)
C38_ExchangeAdjacent ==
    LET stored == history[AgentRoom] IN
    \A i \in 1..Len(stored) :
        /\ stored[i].role = "user"
           => /\ i < Len(stored)
              /\ stored[i + 1].role = "assistant"
              /\ stored[i + 1].content = stored[i].content
        /\ (stored[i].role = "assistant" /\ i > 1)
           => /\ stored[i - 1].role = "user"
              /\ stored[i - 1].content = stored[i].content

\* a generation saved its exchange while the followed call, begun before
\* it, was running, and the followed call has saved its own behind it
C38_Witness ==
    /\ pc = "done"
    /\ Len(history[AgentRoom]) = 4
    /\ history[AgentRoom][1].content = NthTextBeside(1)
    /\ history[AgentRoom][3].content = NthText(1)
    /\ call.transcript = NthText(1)


\* the call is over and its result is the fallback line: returned, or handed
\* to a callback that threw
EndedInFallback ==
    /\ pc = "done"
    /\ \/ obs.outcome.kind = "rejected"
       \/ obs.outcome.text \in FallbackLines

\* C39: a generation that ends in the fallback leaves the history as it was
\* when the generation began: no step of it has changed the history, be its
\* transcript blank or have all its attempts failed, also after sentences
\* were handed over.
C39_FallbackKeepsHistory ==
    [][/\ EndedInFallback' => history' = [r \in Rooms |-> <<>>]
       /\ history' # history
          => /\ pc' = "done"
             /\ obs'.outcome.kind = "resolved"
             /\ obs'.outcome.text \notin FallbackLines]_vars

\* a call for a room ended in the fallback after an attempt had handed a
\* sentence to the callback
C39_Witness ==
    /\ EndedInFallback
    /\ call.roomName = "r1"
    /\ obs.modelCalls > 0
    /\ Len(obs.delivered) >= 2
    /\ history["r1"] = <<>>

\* a call with a blank transcript for a room ended in the fallback
FallbackOfBlankTranscript ==
    /\ EndedInFallback
    /\ call.roomName = "r1"
    /\ obs.modelCalls = 0
    /\ history["r1"] = <<>>

-----------------------------------------------------------------------------
(* The in-flight guard is released: C40 *)

\* C40: whenever connect or handleDisconnect has set the in-flight guard,
\* the guard is cleared again once the operations it awaits have settled,
\* whether they succeeded or failed.
C40_GuardReleased == actionInFlight ~> ~actionInFlight

\* a connect has failed and has released the guard
C40_Witness ==
    /\ connectionStatus = "error"
    /\ clientRef = "null"
    /\ ~actionInFlight
    /\ connPc = "idle"

\* a disconnect whose client.disconnect() rejected has released the guard
GuardReleasedAfterFailedDisconnect ==
    /\ connectionStatus = "idle"
    /\ clientRef = "client"
    /\ ~actionInFlight
    /\ messages # <<>>
====
